---- MODULE Spec2Model ----
(***************************************************************************)
(* A model of the imperative interaction core of the Field canvas: the     *)
(* pan/zoom viewport controller (createCanvasController), the drag         *)
(* controller (createDragHandler) and the corner-aware resize controller   *)
(* (createResizeHandler).                                                  *)
(*                                                                         *)
(* JavaScript numbers are modelled as exact rationals <<n, d>> (d > 0, in  *)
(* lowest terms); NaN is <<0, 0>>.  IEEE-754 rounding is not modelled.     *)
(***************************************************************************)
EXTENDS Integers, Sequences, FiniteSets, TLC

VARIABLES
    \* ---- viewport controller (createCanvasController) ----
    scale, translateX, translateY,
    isDragging, dragStartX, dragStartY,
    pendingPanX, pendingPanY, pendingZoom,
    rafId, rafQueue,
    saveTimeout,
    loadPending,
    destroyed,
    transformStyle,
    \* ---- persistence (database.ts) ----
    debounceTimer, dbViewport,
    \* ---- history variables of the viewport controller ----
    frameEvents, lastZoom, panTrack, wheelCount, moveCount, downCount,
    quietSinceRelease,
    \* ---- item nodes (the DOM the drag and resize controllers mutate) ----
    elTransform, elWidth, elHeight, elLift, elDragListeners, elDragHandler,
    \* ---- drag controller (createDragHandler) ----
    dhRegistered, dhIsDragging, dhCurrentCardId, dhCurrentElement,
    dhStartX, dhStartY, dhInitialTransformX, dhInitialTransformY, dhDestroyed,
    \* ---- history variables of the drag controller ----
    dhPhase, dhDown, dhLast, dhPre, dhAbandoned, dhReport, dhCommits, dhAfter,
    dhMoves,
    dhRegs,
    \* ---- item nodes: image child and injected corner handles ----
    elImage, elHandleGroups,
    \* ---- resize controller (createResizeHandler) ----
    rhRegistered, rhHandles, rhSelected,
    rhIsResizing, rhCurrentCardId, rhCurrentElement, rhCurrentImage,
    rhImageNatural, rhStartX, rhStartY, rhInitialX, rhInitialY,
    rhInitialWidth, rhInitialHeight, rhActiveHandle, rhDestroyed,
    \* ---- history variables of the resize controller ----
    rhPhase, rhDown, rhLast, rhPre, rhReport, rhCommits, rhWritten, rhInputs,
    rhRegs,
    \* ---- item store (useCardStore) and item persistence (database.ts) ----
    cards, isHydrated, cardWrites, dbCards,
    \* ---- history variables of the persistence layer ----
    swallowed, cardOps

vpVars == <<scale, translateX, translateY, isDragging, dragStartX, dragStartY,
            pendingPanX, pendingPanY, pendingZoom, rafId, rafQueue, saveTimeout,
            loadPending, destroyed, transformStyle, debounceTimer, dbViewport,
            frameEvents, lastZoom, panTrack, wheelCount, moveCount, downCount,
            quietSinceRelease>>

domVars == <<elTransform, elWidth, elHeight, elLift, elDragListeners,
             elDragHandler, elImage, elHandleGroups>>

dhVars == <<dhRegistered, dhIsDragging, dhCurrentCardId, dhCurrentElement,
            dhStartX, dhStartY, dhInitialTransformX, dhInitialTransformY,
            dhDestroyed, dhPhase, dhDown, dhLast, dhPre, dhAbandoned, dhReport,
            dhCommits,
            dhAfter, dhMoves, dhRegs>>

rhVars == <<rhRegistered, rhHandles, rhSelected, rhIsResizing, rhCurrentCardId,
            rhCurrentElement, rhCurrentImage, rhImageNatural, rhStartX,
            rhStartY, rhInitialX, rhInitialY, rhInitialWidth, rhInitialHeight,
            rhActiveHandle, rhDestroyed, rhPhase, rhDown, rhLast, rhPre,
            rhReport, rhCommits, rhWritten, rhInputs, rhRegs>>

stVars == <<cards, isHydrated, cardWrites, dbCards, swallowed, cardOps>>

vars == <<vpVars, domVars, dhVars, rhVars, stVars>>

-----------------------------------------------------------------------------
(* Bounds of the model.                                                    *)

\* pointer-move events delivered to the drag controller in one behaviour
MaxMoves == 2
\* register calls made on the drag (resize) controller in one behaviour
MaxRegs == 2
\* handle presses and pointer-move events of resize gestures in one behaviour
MaxResizeInputs == 3

\* wheel and pointer-move events delivered to the viewport controller in one
\* behaviour
MaxInputs == 2

-----------------------------------------------------------------------------
(* Exact rational arithmetic standing for JavaScript number arithmetic.    *)

RECURSIVE GCD(_, _)
GCD(a, b) == IF b = 0 THEN a ELSE GCD(b, a % b)

Abs(i) == IF i < 0 THEN -i ELSE i

Norm(n, d) ==
    LET g == GCD(Abs(n), Abs(d))
        s == IF d < 0 THEN -1 ELSE 1
    IN  <<(s * n) \div g, (s * d) \div g>>

R(i) == <<i, 1>>
NaN == <<0, 0>>
IsNaN(a) == a[2] = 0

RAdd(a, b) == IF IsNaN(a) \/ IsNaN(b) THEN NaN
              ELSE Norm(a[1] * b[2] + b[1] * a[2], a[2] * b[2])
RNeg(a) == <<-a[1], a[2]>>
RSub(a, b) == RAdd(a, RNeg(b))
RMul(a, b) == IF IsNaN(a) \/ IsNaN(b) THEN NaN
              ELSE Norm(a[1] * b[1], a[2] * b[2])
\* division by zero does not arise: every divisor is a scale > 0
RDiv(a, b) == IF IsNaN(a) \/ IsNaN(b) \/ b[1] = 0 THEN NaN
              ELSE Norm(a[1] * b[2], a[2] * b[1])
\* comparisons with NaN are false, as in JavaScript
RLt(a, b) == ~IsNaN(a) /\ ~IsNaN(b) /\ a[1] * b[2] < b[1] * a[2]
RLe(a, b) == ~IsNaN(a) /\ ~IsNaN(b) /\ a[1] * b[2] <= b[1] * a[2]
\* Math.max / Math.min: NaN if either argument is NaN
RMax(a, b) == IF IsNaN(a) \/ IsNaN(b) THEN NaN ELSE IF RLt(a, b) THEN b ELSE a
RMin(a, b) == IF IsNaN(a) \/ IsNaN(b) THEN NaN ELSE IF RLt(b, a) THEN b ELSE a

-----------------------------------------------------------------------------
(* Viewport controller: constants and environment.                         *)

MIN_SCALE == <<1, 10>>
MAX_SCALE == <<10, 1>>

\* containerEl.getBoundingClientRect(): the container's screen offset
RectLeft == 10
RectTop == 20

\* zoom coefficients of handleWheel: 0.01 for a pinch (ctrlKey), else 0.002
PinchSpeed == <<1, 100>>
WheelSpeed == <<1, 500>>

\* Math.exp on the zoom deltas the modelled wheel events produce, rounded to
\* one significant digit (exp(0.7) = 2.01, exp(-0.7) = 0.497, exp(2.3) = 9.97,
\* exp(-2.3) = 0.100)
Exp(d) ==
    CASE d = <<7, 10>>   -> <<2, 1>>
      [] d = <<-7, 10>>  -> <<1, 2>>
      [] d = <<23, 10>>  -> <<10, 1>>
      [] d = <<-23, 10>> -> <<1, 10>>
      [] d = <<0, 1>>    -> <<1, 1>>

\* the wheel events of the model: a pinch in (x10), a meta-wheel out (x1/2), a
\* line-mode mouse wheel out (x1/10) and a pixel-mode trackpad pan
WheelEvents ==
    { [ctrlKey |-> TRUE,  metaKey |-> FALSE, deltaMode |-> 0, deltaX |-> 0,
       deltaY |-> -230,  clientX |-> 410, clientY |-> 320],
      [ctrlKey |-> FALSE, metaKey |-> TRUE,  deltaMode |-> 0, deltaX |-> 0,
       deltaY |-> 350,   clientX |-> 110, clientY |-> 70],
      [ctrlKey |-> FALSE, metaKey |-> FALSE, deltaMode |-> 1, deltaX |-> 0,
       deltaY |-> 1150,  clientX |-> 110, clientY |-> 70],
      [ctrlKey |-> FALSE, metaKey |-> FALSE, deltaMode |-> 0, deltaX |-> 30,
       deltaY |-> -20,   clientX |-> 410, clientY |-> 320] }

\* pointer positions of the modelled mouse events
MousePoints == { <<110, 70>>, <<150, 50>> }
\* the pointer-down events of the model: primary button on the container, on
\* the transform layer, on a card and on a resize handle, secondary button on
\* the container
MouseDownEvents ==
    { [button |-> 0, target |-> "container", clientX |-> 110, clientY |-> 70],
      [button |-> 0, target |-> "transform", clientX |-> 150, clientY |-> 50],
      [button |-> 0, target |-> "card",      clientX |-> 110, clientY |-> 70],
      [button |-> 0, target |-> "handle",    clientX |-> 150, clientY |-> 50],
      [button |-> 2, target |-> "container", clientX |-> 150, clientY |-> 50] }

\* the viewport record a previous session may have left in the store (every
\* record is written by saveViewport from a live viewport), or none
StoredViewports ==
    { <<>>,
      <<[scale |-> <<2, 1>>, translateX |-> R(-100), translateY |-> R(40)]>> }

Viewport(s, tx, ty) == [scale |-> s, translateX |-> tx, translateY |-> ty]
CurrentViewport == Viewport(scale, translateX, translateY)

-----------------------------------------------------------------------------
(* Viewport controller: pure parts.                                        *)

\* clamp(scale * exp(delta), MIN_SCALE, MAX_SCALE)
NewScaleUnclamped(s, zoomDelta) == RMul(s, Exp(zoomDelta))
NewScale(s, zoomDelta) ==
    RMin(MAX_SCALE, RMax(MIN_SCALE, RMul(s, Exp(zoomDelta))))

\* the translate is solved with the unclamped scale
ZoomAtPointUnclampedTranslate(s, tx, ty, zoomDelta, screenX, screenY) ==
    LET cursorX == R(screenX - RectLeft)
        cursorY == R(screenY - RectTop)
        worldX == RDiv(RSub(cursorX, tx), s)
        worldY == RDiv(RSub(cursorY, ty), s)
        raw == RMul(s, Exp(zoomDelta))
    IN  Viewport(NewScale(s, zoomDelta),
                 RSub(cursorX, RMul(worldX, raw)),
                 RSub(cursorY, RMul(worldY, raw)))

\* zoomAtPoint: the viewport after a cursor-anchored zoom
ZoomAtPoint(s, tx, ty, zoomDelta, screenX, screenY) ==
    LET cursorX == R(screenX - RectLeft)
        cursorY == R(screenY - RectTop)
        worldX == RDiv(RSub(cursorX, tx), s)
        worldY == RDiv(RSub(cursorY, ty), s)
        newScale == NewScale(s, zoomDelta)
    IN  Viewport(newScale,
                 RSub(cursorX, RMul(worldX, newScale)),
                 RSub(cursorY, RMul(worldY, newScale)))

\* screenToCanvas: the world coordinate under a screen point
ScreenToCanvas(vp, screenX, screenY) ==
    << RDiv(RSub(R(screenX - RectLeft), vp.translateX), vp.scale),
       RDiv(RSub(R(screenY - RectTop), vp.translateY), vp.scale) >>

\* handleWheel's intent detection and zoom delta
\* only a pinch (ctrlKey) counts as zoom
IsZoomIntentPinchOnly(e) == e.ctrlKey

IsZoomIntent(e) == e.ctrlKey \/ e.metaKey \/ e.deltaMode = 1
ZoomDelta(e) == RMul(R(-e.deltaY), IF e.ctrlKey THEN PinchSpeed ELSE WheelSpeed)

\* requestAnimationFrame returns a handle no queued callback has
NewHandle(queue) == CHOOSE h \in 1..(Cardinality(queue) + 1) : h \notin queue

\* a frame is requested on every call
ScheduleFrameAlways(id, queue) ==
    [rafId |-> NewHandle(queue), rafQueue |-> queue \cup {NewHandle(queue)}]

\* the test of rafId is inverted: a frame is requested only when one is queued
ScheduleFrameWhenQueued(id, queue) ==
    IF id # 0
    THEN [rafId |-> NewHandle(queue), rafQueue |-> queue \cup {NewHandle(queue)}]
    ELSE [rafId |-> id, rafQueue |-> queue]

\* scheduleFrame: request a frame callback unless one is already queued
\* (rafId 0 stands for null)
ScheduleFrame(id, queue) ==
    IF id = 0
    THEN [rafId |-> NewHandle(queue), rafQueue |-> queue \cup {NewHandle(queue)}]
    ELSE [rafId |-> id, rafQueue |-> queue]

\* the viewport after the given wheel events are all applied to vp: every
\* zoom in arrival order, then every pan
RECURSIVE ApplyZooms(_, _)
ApplyZooms(vp, evs) ==
    IF evs = <<>> THEN vp
    ELSE LET e == Head(evs)
             nxt == IF IsZoomIntent(e)
                    THEN ZoomAtPoint(vp.scale, vp.translateX, vp.translateY,
                                     ZoomDelta(e), e.clientX, e.clientY)
                    ELSE vp
         IN  ApplyZooms(nxt, Tail(evs))

RECURSIVE ApplyPans(_, _)
ApplyPans(vp, evs) ==
    IF evs = <<>> THEN vp
    ELSE LET e == Head(evs)
             nxt == IF IsZoomIntent(e) THEN vp
                    ELSE Viewport(vp.scale,
                                  RSub(vp.translateX, R(e.deltaX)),
                                  RSub(vp.translateY, R(e.deltaY)))
         IN  ApplyPans(nxt, Tail(evs))

AllDeltasApplied(vp, evs) == ApplyPans(ApplyZooms(vp, evs), evs)

-----------------------------------------------------------------------------
(* Viewport controller: construction.                                      *)

InitViewport ==
    /\ scale = R(1) /\ translateX = R(0) /\ translateY = R(0)
    /\ isDragging = FALSE /\ dragStartX = 0 /\ dragStartY = 0
    /\ pendingPanX = 0 /\ pendingPanY = 0 /\ pendingZoom = <<>>
    /\ rafId = 0 /\ rafQueue = {}
    /\ saveTimeout = "null"
    /\ loadPending = TRUE
    /\ destroyed = FALSE
    /\ transformStyle = <<>>
    /\ debounceTimer = <<>>
    /\ dbViewport \in StoredViewports
    /\ frameEvents = <<>> /\ lastZoom = <<>> /\ panTrack = <<>>
    /\ wheelCount = 0 /\ moveCount = 0 /\ downCount = 0
    /\ quietSinceRelease = FALSE

\* the viewport controller at rest at scale s: no pan, no pending wheel
\* input, no timer, the load done
IdleViewport(s) ==
    /\ scale = s /\ translateX = R(0) /\ translateY = R(0)
    /\ isDragging = FALSE /\ dragStartX = 0 /\ dragStartY = 0
    /\ pendingPanX = 0 /\ pendingPanY = 0 /\ pendingZoom = <<>>
    /\ rafId = 0 /\ rafQueue = {}
    /\ saveTimeout = "null"
    /\ loadPending = FALSE
    /\ destroyed = FALSE
    /\ transformStyle = << Viewport(s, R(0), R(0)) >>
    /\ debounceTimer = <<>>
    /\ dbViewport = <<>>
    /\ frameEvents = <<>> /\ lastZoom = <<>> /\ panTrack = <<>>
    /\ wheelCount = 0 /\ moveCount = 0 /\ downCount = 0
    /\ quietSinceRelease = FALSE

-----------------------------------------------------------------------------
(* Viewport controller: handlers.                                          *)

\* handleWheelWithSave: handleWheel (accumulate, schedule a frame) and then
\* handleWheelEnd (restart the 150 ms idle timer)
HandleWheelWithSave(e) ==
    /\ ~destroyed
    /\ wheelCount + moveCount + downCount < MaxInputs
    /\ IF IsZoomIntent(e)
       THEN /\ pendingZoom' = << [delta |-> ZoomDelta(e),
                                  centerX |-> e.clientX, centerY |-> e.clientY] >>
            /\ UNCHANGED <<pendingPanX, pendingPanY>>
       ELSE /\ pendingPanX' = pendingPanX - e.deltaX
            /\ pendingPanY' = pendingPanY - e.deltaY
            /\ UNCHANGED pendingZoom
    /\ rafId' = ScheduleFrame(rafId, rafQueue).rafId
    /\ rafQueue' = ScheduleFrame(rafId, rafQueue).rafQueue
    /\ saveTimeout' = "pending"
    /\ frameEvents' = Append(frameEvents, e)
    /\ wheelCount' = wheelCount + 1
    /\ UNCHANGED <<scale, translateX, translateY, isDragging, dragStartX,
                   dragStartY, loadPending, destroyed, transformStyle,
                   debounceTimer, dbViewport, lastZoom, panTrack, moveCount,
                   downCount>>
    /\ quietSinceRelease' = FALSE

\* processFrame's first step: the pending zoom, if any, applied at its point
FrameZoomed(s, tx, ty, pz) ==
    IF pz # <<>>
    THEN ZoomAtPoint(s, tx, ty, pz[1].delta, pz[1].centerX, pz[1].centerY)
    ELSE Viewport(s, tx, ty)

\* the pending pan is added before the pending zoom is applied
FrameViewportPanFirst(s, tx, ty, pz, px, py) ==
    FrameZoomed(s, RAdd(tx, R(px)), RAdd(ty, R(py)), pz)

\* the frame callback writes the translate it had when the first wheel event
\* of the frame arrived plus the pending pan: a pan move in between is lost
FrameViewportFromStale(s, tx, ty, pz, px, py) ==
    LET zoomed == FrameZoomed(s, tx, ty, pz)
    IN  IF px # 0 \/ py # 0
        THEN Viewport(zoomed.scale,
                      RAdd(R(0), R(px)),
                      RAdd(R(0), R(py)))
        ELSE zoomed

\* processFrame: the viewport after the pending zoom and then the pending pan
FrameViewport(s, tx, ty, pz, px, py) ==
    LET zoomed == FrameZoomed(s, tx, ty, pz)
    IN  IF px # 0 \/ py # 0
        THEN Viewport(zoomed.scale,
                      RAdd(zoomed.translateX, R(px)),
                      RAdd(zoomed.translateY, R(py)))
        ELSE zoomed

\* history of the active pan gesture: the last pointer position (last) and
\* how far translate is from
\*   (translate at the base) + (last - pointer position at the base)
\* with the pointer-down as the base (dev0) and with the latest of the
\* pointer-down and the frame callbacks and viewport loads that wrote
\* translate during the gesture as the base (devb)
PanStarted(e) ==
    [dev0 |-> <<R(0), R(0)>>, devb |-> <<R(0), R(0)>>,
     last |-> <<e.clientX, e.clientY>>]

\* the pan history after a pointer-move to p changed translate to (tx, ty)
PanMoved(p, tx, ty) ==
    LET gx == RSub(RSub(tx, translateX), R(p[1] - panTrack[1].last[1]))
        gy == RSub(RSub(ty, translateY), R(p[2] - panTrack[1].last[2]))
    IN  [dev0 |-> <<RAdd(panTrack[1].dev0[1], gx), RAdd(panTrack[1].dev0[2], gy)>>,
         devb |-> <<RAdd(panTrack[1].devb[1], gx), RAdd(panTrack[1].devb[2], gy)>>,
         last |-> p]

\* the pan history after another source changed translate to (tx, ty)
PanRebased(tx, ty) ==
    IF panTrack = <<>> THEN panTrack
    ELSE << [panTrack[1] EXCEPT
               !.dev0 = <<RAdd(@[1], RSub(tx, translateX)),
                          RAdd(@[2], RSub(ty, translateY))>>,
               !.devb = <<R(0), R(0)>>] >>

\* processFrame, run by the browser for one queued frame callback
ProcessFrame ==
    \E h \in rafQueue :
        LET before == CurrentViewport
            zoomed == FrameZoomed(scale, translateX, translateY, pendingZoom)
            panned == FrameViewport(scale, translateX, translateY, pendingZoom,
                                    pendingPanX, pendingPanY)
        IN  /\ rafQueue' = rafQueue \ {h}
            /\ rafId' = 0
            /\ pendingZoom' = <<>>
            /\ pendingPanX' = 0 /\ pendingPanY' = 0
            /\ scale' = panned.scale
            /\ translateX' = panned.translateX
            /\ translateY' = panned.translateY
            /\ transformStyle' = <<panned>>
            /\ lastZoom' =
                 IF pendingZoom # <<>>
                 THEN << [worldBefore |-> ScreenToCanvas(before,
                              pendingZoom[1].centerX, pendingZoom[1].centerY),
                          worldAfter |-> ScreenToCanvas(zoomed,
                              pendingZoom[1].centerX, pendingZoom[1].centerY),
                          clamped |-> NewScaleUnclamped(scale, pendingZoom[1].delta)
                                        # zoomed.scale,
                          withPan |-> (pendingPanX # 0 \/ pendingPanY # 0)] >>
                 ELSE lastZoom
            /\ frameEvents' = <<>>
            /\ panTrack' = PanRebased(panned.translateX, panned.translateY)
            /\ UNCHANGED <<isDragging, dragStartX, dragStartY, saveTimeout,
                           loadPending, destroyed, debounceTimer, dbViewport,
                           wheelCount, moveCount, downCount,
                           quietSinceRelease>>

\* every primary-button press starts a pan
PanStartsAnyTarget(e) == e.button = 0

\* handleMouseDown's conditions: primary button, and the target is the
\* container or the transform layer itself
PanStarts(e) == e.button = 0 /\ e.target \in {"container", "transform"}

\* handleMouseDown on the container: a primary-button press on the canvas
\* background starts a pan
HandleMouseDown(e) ==
    /\ ~destroyed
    /\ wheelCount + moveCount + downCount < MaxInputs
    /\ downCount' = downCount + 1
    /\ IF PanStarts(e)
       THEN /\ isDragging' = TRUE
            /\ dragStartX' = e.clientX
            /\ dragStartY' = e.clientY
            /\ panTrack' = << PanStarted(e) >>
       ELSE UNCHANGED <<isDragging, dragStartX, dragStartY, panTrack>>
    /\ UNCHANGED <<scale, translateX, translateY, pendingPanX, pendingPanY,
                   pendingZoom, rafId, rafQueue, saveTimeout, loadPending,
                   destroyed, transformStyle, debounceTimer, dbViewport,
                   frameEvents, lastZoom, wheelCount, moveCount>>
    /\ quietSinceRelease' = FALSE

\* a pan delta measured from the container's corner
PanDeltaFromCorner(p) == <<p[1] - RectLeft, p[2] - RectTop>>

\* the pointer delta of handleMouseMove: from the stored drag start
PanDelta(p) == <<p[1] - dragStartX, p[2] - dragStartY>>

\* handleMouseMove on window: an active pan follows the pointer immediately
HandleMouseMove(p) ==
    /\ ~destroyed
    /\ wheelCount + moveCount + downCount < MaxInputs
    /\ moveCount' = moveCount + 1
    /\ IF ~isDragging
       THEN UNCHANGED <<translateX, translateY, dragStartX, dragStartY,
                        transformStyle, panTrack>>
       ELSE /\ dragStartX' = p[1]
            /\ dragStartY' = p[2]
            /\ translateX' = RAdd(translateX, R(PanDelta(p)[1]))
            /\ translateY' = RAdd(translateY, R(PanDelta(p)[2]))
            /\ panTrack' = << PanMoved(p, translateX', translateY') >>
            /\ transformStyle' = << Viewport(scale, translateX', translateY') >>
    /\ UNCHANGED <<scale, isDragging, pendingPanX, pendingPanY, pendingZoom,
                   rafId, rafQueue, saveTimeout, loadPending, destroyed,
                   debounceTimer, dbViewport, frameEvents, lastZoom, wheelCount,
                   downCount>>
    /\ quietSinceRelease' = FALSE

\* every pointer-up releases a pan
PanReleasedAlways == TRUE

\* handleMouseUp's guard: a pan is active
PanReleased == isDragging

\* handleMouseUp on window: releasing a pan saves the viewport (saveViewport
\* is debounced: the call restarts the 300 ms timer with the new arguments)
HandleMouseUp ==
    /\ ~destroyed
    /\ IF PanReleased
       THEN /\ isDragging' = FALSE
            /\ debounceTimer' = <<CurrentViewport>>
            /\ panTrack' = <<>>
       ELSE UNCHANGED <<isDragging, debounceTimer, panTrack>>
    /\ UNCHANGED <<scale, translateX, translateY, dragStartX, dragStartY,
                   pendingPanX, pendingPanY, pendingZoom, rafId, rafQueue,
                   saveTimeout, loadPending, destroyed, transformStyle,
                   dbViewport, frameEvents, lastZoom, wheelCount, moveCount,
                   downCount>>
    /\ quietSinceRelease' = (isDragging \/ quietSinceRelease)

\* the 150 ms idle timer of handleWheelEnd fires: saveViewport(current)
WheelEndTimer ==
    /\ saveTimeout = "pending"
    /\ saveTimeout' = "done"
    /\ debounceTimer' = <<CurrentViewport>>
    /\ UNCHANGED <<scale, translateX, translateY, isDragging, dragStartX,
                   dragStartY, pendingPanX, pendingPanY, pendingZoom, rafId,
                   rafQueue, loadPending, destroyed, transformStyle, dbViewport,
                   frameEvents, lastZoom, panTrack, wheelCount, moveCount,
                   downCount, quietSinceRelease>>

\* the 300 ms debounce timer of saveViewport fires: db.viewport.put succeeds
\* or fails; a failure is caught and only logged
SaveViewport(ok) ==
    /\ debounceTimer # <<>>
    /\ debounceTimer' = <<>>
    /\ dbViewport' = IF ok THEN debounceTimer ELSE dbViewport
    /\ UNCHANGED <<scale, translateX, translateY, isDragging, dragStartX,
                   dragStartY, pendingPanX, pendingPanY, pendingZoom, rafId,
                   rafQueue, saveTimeout, loadPending, destroyed,
                   transformStyle, frameEvents, lastZoom, panTrack, wheelCount,
                   moveCount, downCount, quietSinceRelease>>

\* init: the awaited loadViewport resolves (with the stored record, or with
\* undefined when there is none or the read fails) and the record is applied
InitLoaded(ok) ==
    /\ loadPending
    /\ loadPending' = FALSE
    /\ IF ok /\ dbViewport # <<>>
       THEN /\ scale' = dbViewport[1].scale
            /\ translateX' = dbViewport[1].translateX
            /\ translateY' = dbViewport[1].translateY
            /\ transformStyle' = <<dbViewport[1]>>
            /\ panTrack' = PanRebased(dbViewport[1].translateX,
                                      dbViewport[1].translateY)
       ELSE UNCHANGED <<scale, translateX, translateY, transformStyle, panTrack>>
    /\ UNCHANGED <<isDragging, dragStartX, dragStartY, pendingPanX, pendingPanY,
                   pendingZoom, rafId, rafQueue, saveTimeout, destroyed,
                   debounceTimer, dbViewport, frameEvents, lastZoom, wheelCount,
                   moveCount, downCount, quietSinceRelease>>

\* destroy: cancel the queued frame and the idle timer, remove the listeners
Destroy ==
    /\ ~destroyed
    /\ destroyed' = TRUE
    /\ rafQueue' = IF rafId # 0 THEN rafQueue \ {rafId} ELSE rafQueue
    /\ saveTimeout' = IF saveTimeout # "null" THEN "done" ELSE saveTimeout
    /\ UNCHANGED <<scale, translateX, translateY, isDragging, dragStartX,
                   dragStartY, pendingPanX, pendingPanY, pendingZoom, rafId,
                   loadPending, transformStyle, debounceTimer, dbViewport,
                   frameEvents, lastZoom, panTrack, wheelCount, moveCount,
                   downCount, quietSinceRelease>>

NextViewport ==
    \/ \E e \in WheelEvents : HandleWheelWithSave(e)
    \/ ProcessFrame
    \/ \E e \in MouseDownEvents : HandleMouseDown(e)
    \/ \E p \in MousePoints : HandleMouseMove(p)
    \/ HandleMouseUp
    \/ WheelEndTimer
    \/ \E ok \in BOOLEAN : SaveViewport(ok)
    \/ \E ok \in BOOLEAN : InitLoaded(ok)
    \/ Destroy

-----------------------------------------------------------------------------
(* Item nodes.                                                             *)

\* the item nodes the host view mounts, and the item ids
Nodes == { "n1", "n2" }
Ids == { "a", "b" }
NoNode == "none"
NoId == "null"

\* Card registers its own node under its own id
RegisterPairs == { <<"n1", "a">>, <<"n2", "b">> }

\* the viewport scales a gesture may run at
GestureScales == { R(1), <<5, 2>> }

\* Card renders every node with an inline translate3d(x px, y px, 0) taken
\* from card.position, and with an inline width/height only when card.size is
\* set: n1 is a sized item at (0,0), n2 an unsized item at (100,100).  n1 is
\* an image item: its img.card-image child has the layout size 100 x 50 and
\* is scaled by (2, 2) to fill the item
InitDom ==
    /\ elTransform = [n \in Nodes |->
                        IF n = "n1" THEN <<R(0), R(0)>> ELSE <<R(100), R(100)>>]
    /\ elWidth  = [n \in Nodes |-> IF n = "n1" THEN R(200) ELSE <<>>]
    /\ elHeight = [n \in Nodes |-> IF n = "n1" THEN R(100) ELSE <<>>]
    /\ elLift = [n \in Nodes |-> "unset"]
    /\ elDragListeners = [n \in Nodes |-> <<>>]
    /\ elDragHandler = [n \in Nodes |-> 0]
    /\ elImage = [n \in Nodes |->
                    IF n = "n1"
                    THEN << [width |-> R(100), height |-> R(50),
                             scale |-> <<R(2), R(2)>>] >>
                    ELSE <<>>]
    /\ elHandleGroups = [n \in Nodes |-> <<>>]

\* the listener sequence without the listener h
RECURSIVE Without(_, _)
Without(seq, h) ==
    IF seq = <<>> THEN <<>>
    ELSE IF Head(seq).h = h THEN Without(Tail(seq), h)
         ELSE <<Head(seq)>> \o Without(Tail(seq), h)

-----------------------------------------------------------------------------
(* Drag controller.                                                        *)

\* pointer positions of the modelled drag gestures
DragPoints == { <<110, 70>>, <<160, 50>> }
DragButtons == { 0, 2 }

\* the translation is read from the wrong cells of the matrix
ParseTransformWrongCells(t) == <<R(0), R(0)>>

\* parseTransform: m41 / m42 of the node's computed transform (the identity
\* when the node has no transform)
ParseTransform(t) == IF t = <<>> THEN <<R(0), R(0)>> ELSE t

InitDrag ==
    /\ dhRegistered = [i \in Ids |-> NoNode]
    /\ dhIsDragging = FALSE
    /\ dhCurrentCardId = NoId
    /\ dhCurrentElement = NoNode
    /\ dhStartX = R(0) /\ dhStartY = R(0)
    /\ dhInitialTransformX = R(0) /\ dhInitialTransformY = R(0)
    /\ dhDestroyed = FALSE
    /\ dhPhase = "idle" /\ dhDown = <<>> /\ dhLast = <<>> /\ dhPre = <<>>
    /\ dhAbandoned = NoNode
    /\ dhReport = <<>> /\ dhCommits = 0 /\ dhAfter = FALSE
    /\ dhMoves = 0 /\ dhRegs = 0

dhHistory ==
    <<dhPhase, dhDown, dhLast, dhPre, dhAbandoned, dhReport, dhCommits, dhAfter>>

\* register: add a pointer-down listener closed over (cardId, element), keep
\* it in element.__dragHandler, and record the element under cardId.  The
\* listener is identified by the serial number of the register call.
DragRegister(n, id) ==
    /\ dhRegs < MaxRegs
    /\ dhRegs' = dhRegs + 1
    /\ elDragListeners' = [elDragListeners EXCEPT ![n] =
                              Append(@, [h |-> dhRegs + 1, cardId |-> id])]
    /\ elDragHandler' = [elDragHandler EXCEPT ![n] = dhRegs + 1]
    /\ dhRegistered' = [dhRegistered EXCEPT ![id] = n]
    /\ UNCHANGED <<elTransform, elWidth, elHeight, elLift, elImage, elHandleGroups>>
    /\ UNCHANGED <<dhIsDragging, dhCurrentCardId, dhCurrentElement, dhStartX,
                   dhStartY, dhInitialTransformX, dhInitialTransformY,
                   dhDestroyed, dhHistory, dhMoves>>

\* unregister: remove the listener kept in element.__dragHandler and delete
\* the registry entry; an unknown id is ignored
DragUnregister(id) ==
    /\ IF dhRegistered[id] # NoNode
       THEN /\ elDragListeners' =
                 [elDragListeners EXCEPT ![dhRegistered[id]] =
                     IF elDragHandler[dhRegistered[id]] # 0
                     THEN Without(@, elDragHandler[dhRegistered[id]])
                     ELSE @]
            /\ dhRegistered' = [dhRegistered EXCEPT ![id] = NoNode]
       ELSE UNCHANGED <<elDragListeners, dhRegistered>>
    /\ UNCHANGED <<elTransform, elWidth, elHeight, elLift, elDragHandler,
                   elImage, elHandleGroups>>
    /\ UNCHANGED <<dhIsDragging, dhCurrentCardId, dhCurrentElement, dhStartX,
                   dhStartY, dhInitialTransformX, dhInitialTransformY,
                   dhDestroyed, dhHistory, dhMoves, dhRegs>>

\* the id the last pointer-down listener of a node is closed over (the
\* listeners run in registration order and each overwrites the gesture state)
\* a press during an active drag keeps the id of the item being dragged
CurrentOrLastListenerId(n) ==
    IF dhIsDragging THEN dhCurrentCardId
    ELSE elDragListeners[n][Len(elDragListeners[n])].cardId

LastListenerId(n) == elDragListeners[n][Len(elDragListeners[n])].cardId

\* handleMouseDown: the browser dispatches a pointer-down on node n to the
\* node's listeners; a primary-button press starts a drag of n
DragMouseDown(n, button, p) ==
    /\ elDragListeners[n] # <<>>
    /\ IF button # 0
       THEN UNCHANGED <<domVars, dhVars>>
       ELSE /\ dhIsDragging' = TRUE
            /\ dhCurrentCardId' = LastListenerId(n)
            /\ dhCurrentElement' = n
            /\ dhStartX' = RDiv(R(p[1]), scale)
            /\ dhStartY' = RDiv(R(p[2]), scale)
            /\ dhInitialTransformX' = ParseTransform(elTransform[n])[1]
            /\ dhInitialTransformY' = ParseTransform(elTransform[n])[2]
            /\ elLift' = [elLift EXCEPT ![n] = "lifted"]
            /\ dhPhase' = "active"
            /\ dhDown' = p
            /\ dhLast' = <<>>
            /\ dhPre' = <<n, elTransform[n]>>
            /\ dhAbandoned' = IF dhIsDragging /\ dhCurrentElement # n
                              THEN dhCurrentElement ELSE NoNode
            /\ dhReport' = <<>>
            /\ dhCommits' = 0
            /\ dhAfter' = FALSE
            /\ UNCHANGED <<elTransform, elWidth, elHeight, elDragListeners,
                           elDragHandler, elImage, elHandleGroups>>
            /\ UNCHANGED <<dhRegistered, dhDestroyed, dhMoves, dhRegs>>

\* the pointer-up handler leaves isDragging set
DragStateAfterUpKept == dhIsDragging

\* handleMouseUp's value for isDragging once the commit is made
DragStateAfterUp == FALSE

\* the pointer-move arithmetic with the viewport translate taken off the
\* pointer position
DragNewPosCanvasPoint(p) ==
    << RAdd(dhInitialTransformX,
            RSub(RDiv(RSub(R(p[1]), translateX), scale), dhStartX)),
       RAdd(dhInitialTransformY,
            RSub(RDiv(RSub(R(p[2]), translateY), scale), dhStartY)) >>

\* the pointer's screen delta is added without dividing by the scale
DragNewPosScreenDelta(p) ==
    << RAdd(dhInitialTransformX, RSub(R(p[1]), RMul(dhStartX, scale))),
       RAdd(dhInitialTransformY, RSub(R(p[2]), RMul(dhStartY, scale))) >>

\* handleMouseMove's new position: the start transform plus the pointer's
\* world-space delta since pointer-down
DragNewPos(p) ==
    << RAdd(dhInitialTransformX, RSub(RDiv(R(p[1]), scale), dhStartX)),
       RAdd(dhInitialTransformY, RSub(RDiv(R(p[2]), scale), dhStartY)) >>

\* handleMouseMove on window: an active drag writes the node's transform
DragMouseMove(p) ==
    /\ ~dhDestroyed
    /\ dhMoves < MaxMoves
    /\ dhMoves' = dhMoves + 1
    /\ dhLast' = IF dhPhase = "active" THEN p ELSE dhLast
    /\ dhAfter' = (dhAfter \/ dhPhase = "ended")
    /\ IF ~dhIsDragging \/ dhCurrentElement = NoNode
       THEN UNCHANGED elTransform
       ELSE elTransform' = [elTransform EXCEPT ![dhCurrentElement] = DragNewPos(p)]
    /\ UNCHANGED <<elWidth, elHeight, elLift, elDragListeners, elDragHandler,
                   elImage, elHandleGroups>>
    /\ UNCHANGED <<dhRegistered, dhIsDragging, dhCurrentCardId,
                   dhCurrentElement, dhStartX, dhStartY, dhInitialTransformX,
                   dhInitialTransformY, dhDestroyed, dhPhase, dhDown, dhPre,
                   dhAbandoned, dhReport, dhCommits, dhRegs>>

\* handleMouseUp on window: an active drag drops the lift style, reports the
\* node's parsed transform through onDragEnd and clears the gesture state
DragMouseUp ==
    /\ ~dhDestroyed
    /\ dhPhase' = IF dhPhase = "active" THEN "ended" ELSE dhPhase
    /\ dhAfter' = (dhAfter \/ dhPhase = "ended")
    /\ IF ~dhIsDragging \/ dhCurrentElement = NoNode \/ dhCurrentCardId = NoId
       THEN UNCHANGED <<elLift, dhReport, dhCommits, dhIsDragging,
                        dhCurrentCardId, dhCurrentElement>>
       ELSE /\ elLift' = [elLift EXCEPT ![dhCurrentElement] = "rest"]
            /\ dhReport' = << [cardId |-> dhCurrentCardId,
                               x |-> ParseTransform(elTransform[dhCurrentElement])[1],
                               y |-> ParseTransform(elTransform[dhCurrentElement])[2]] >>
            /\ dhCommits' = dhCommits + 1
            /\ dhIsDragging' = DragStateAfterUp
            /\ dhCurrentCardId' = NoId
            /\ dhCurrentElement' = NoNode
    /\ UNCHANGED <<elTransform, elWidth, elHeight, elDragListeners,
                   elDragHandler, elImage, elHandleGroups>>
    /\ UNCHANGED <<dhRegistered, dhStartX, dhStartY, dhInitialTransformX,
                   dhInitialTransformY, dhDestroyed, dhDown, dhLast, dhPre,
                   dhAbandoned, dhMoves, dhRegs>>

\* destroy: remove the window listeners and clear the registry (the nodes'
\* pointer-down listeners are left in place)
DragDestroy ==
    /\ dhDestroyed' = TRUE
    /\ dhRegistered' = [i \in Ids |-> NoNode]
    /\ UNCHANGED domVars
    /\ UNCHANGED <<dhIsDragging, dhCurrentCardId, dhCurrentElement, dhStartX,
                   dhStartY, dhInitialTransformX, dhInitialTransformY,
                   dhHistory, dhMoves, dhRegs>>

NextDrag ==
    \/ \E pr \in RegisterPairs : DragRegister(pr[1], pr[2])
    \/ \E id \in Ids : DragUnregister(id)
    \/ \E n \in Nodes, b \in DragButtons, p \in DragPoints : DragMouseDown(n, b, p)
    \/ \E p \in DragPoints : DragMouseMove(p)
    \/ DragMouseUp
    \/ DragDestroy

-----------------------------------------------------------------------------
(* Resize controller.                                                      *)

Corners == { "tl", "tr", "bl", "br" }
NoCorner == "null"

\* minimum dimensions of handleMouseMove
MIN_W == 60
MIN_H == 30

\* pointer positions of the modelled resize gestures: where a handle is
\* pressed, and where the pointer moves to
ResizeDownPoints == { <<110, 270>> }
ResizePoints == { <<140, 70>>, <<290, 250>> }

\* the content size the layout gives a node that has no inline width/height
AutoWidth == 120
AutoHeight == 40

\* getBoundingClientRect() of an item node: its layout box (the inline size
\* when one is set), scaled by the viewport transform it is rendered under
RectWidth(n) == RMul(IF elWidth[n] # <<>> THEN elWidth[n] ELSE R(AutoWidth), scale)
RectHeight(n) == RMul(IF elHeight[n] # <<>> THEN elHeight[n] ELSE R(AutoHeight), scale)

\* style.transform.match(/translate3d\(([-\d.]+)px,\s*([-\d.]+)px/): the two
\* numbers of an inline translate3d, or no match
MatchTranslate(t) == IF t = <<>> \/ IsNaN(t[1]) \/ IsNaN(t[2]) THEN <<>> ELSE t

\* parseFloat of an inline length: NaN for the empty string
ParseFloat(v) == IF v = <<>> THEN NaN ELSE v

InitResize ==
    /\ rhRegistered = [i \in Ids |-> NoNode]
    /\ rhHandles = [i \in Ids |-> 0]
    /\ rhSelected = NoId
    /\ rhIsResizing = FALSE
    /\ rhCurrentCardId = NoId
    /\ rhCurrentElement = NoNode
    /\ rhCurrentImage = FALSE
    /\ rhImageNatural = <<>>
    /\ rhStartX = R(0) /\ rhStartY = R(0)
    /\ rhInitialX = R(0) /\ rhInitialY = R(0)
    /\ rhInitialWidth = R(0) /\ rhInitialHeight = R(0)
    /\ rhActiveHandle = NoCorner
    /\ rhDestroyed = FALSE
    /\ rhPhase = "idle" /\ rhDown = <<>> /\ rhLast = <<>> /\ rhPre = <<>>
    /\ rhReport = <<>> /\ rhCommits = 0 /\ rhWritten = <<>>
    /\ rhInputs = 0 /\ rhRegs = 0

rhGesture == <<rhIsResizing, rhCurrentCardId, rhCurrentElement, rhCurrentImage,
               rhImageNatural, rhStartX, rhStartY, rhInitialX, rhInitialY,
               rhInitialWidth, rhInitialHeight, rhActiveHandle>>
rhHistory == <<rhPhase, rhDown, rhLast, rhPre, rhReport, rhCommits, rhWritten>>
elItem == <<elTransform, elWidth, elHeight, elLift, elDragListeners,
            elDragHandler, elImage>>

\* the handle groups of all nodes with display d given to the group g
WithDisplay(groups, g, d) ==
    [n \in Nodes |->
        [k \in 1..Len(groups[n]) |->
            IF groups[n][k].g = g THEN [groups[n][k] EXCEPT !.display = d]
            ELSE groups[n][k]]]

\* the handle groups of all nodes without the group g
RECURSIVE WithoutGroupSeq(_, _)
WithoutGroupSeq(seq, g) ==
    IF seq = <<>> THEN <<>>
    ELSE IF Head(seq).g = g THEN WithoutGroupSeq(Tail(seq), g)
         ELSE <<Head(seq)>> \o WithoutGroupSeq(Tail(seq), g)

WithoutGroup(groups, g) == [n \in Nodes |-> WithoutGroupSeq(groups[n], g)]

\* updateHandleVisibility(cardId) with selectedCardId = sel: the tracked
\* handles of cardId are shown iff cardId is selected
UpdateHandleVisibility(groups, handles, cardId, sel) ==
    IF cardId # NoId /\ handles[cardId] # 0
    THEN WithDisplay(groups, handles[cardId], IF cardId = sel THEN "block" ELSE "none")
    ELSE groups

\* register: create four hidden corner handles (one group, identified by the
\* serial number of the register call), each with a pointer-down listener
\* closed over (cardId, cardElement, corner), append them to the node and
\* track them under cardId
ResizeRegister(n, id) ==
    /\ rhRegs < MaxRegs
    /\ rhRegs' = rhRegs + 1
    /\ elHandleGroups' = [elHandleGroups EXCEPT ![n] =
          Append(@, [g |-> rhRegs + 1, cardId |-> id, display |-> "none"])]
    /\ rhHandles' = [rhHandles EXCEPT ![id] = rhRegs + 1]
    /\ rhRegistered' = [rhRegistered EXCEPT ![id] = n]
    /\ UNCHANGED <<elItem, rhSelected, rhGesture, rhDestroyed, rhHistory, rhInputs>>

\* unregister: remove the tracked handles of cardId from the DOM and drop
\* both registry entries
ResizeUnregister(id) ==
    /\ elHandleGroups' = IF rhHandles[id] # 0
                         THEN WithoutGroup(elHandleGroups, rhHandles[id])
                         ELSE elHandleGroups
    /\ rhHandles' = [rhHandles EXCEPT ![id] = 0]
    /\ rhRegistered' = [rhRegistered EXCEPT ![id] = NoNode]
    /\ UNCHANGED <<elItem, rhSelected, rhGesture, rhDestroyed, rhHistory,
                   rhInputs, rhRegs>>

\* setSelected: record the selection, then refresh the previous and the new
\* selection's handles
ResizeSetSelected(id) ==
    /\ rhSelected' = id
    /\ elHandleGroups' =
          UpdateHandleVisibility(
              UpdateHandleVisibility(elHandleGroups, rhHandles, rhSelected, id),
              rhHandles, id, id)
    /\ UNCHANGED <<elItem, rhRegistered, rhHandles, rhGesture, rhDestroyed,
                   rhHistory, rhInputs, rhRegs>>

\* the image's size as it is painted, its transform included
ImagePaintedSize(img) ==
    <<RMul(img.width, img.scale[1]), RMul(img.height, img.scale[2])>>

\* handleResizeStart's image snapshot: img.width and img.height, the
\* element's layout size, which its transform does not change
ImageNaturalSize(img) == <<img.width, img.height>>

\* the start position is parsed with parseFloat whether the pattern matched
\* or not
InitialPositionUnchecked(t) ==
    IF MatchTranslate(t) # <<>> THEN MatchTranslate(t) ELSE <<NaN, NaN>>

\* handleResizeStart's start position: the two numbers of the node's inline
\* translate3d, or (0, 0) when the inline transform does not match
InitialPosition(t) ==
    IF MatchTranslate(t) # <<>> THEN MatchTranslate(t) ELSE <<R(0), R(0)>>

\* handleResizeStart: a pointer-down on the visible corner handle `corner` of
\* group k of node n starts a resize of n
ResizeStart(n, k, corner, p) ==
    /\ k \in 1..Len(elHandleGroups[n])
    /\ elHandleGroups[n][k].display = "block"
    /\ rhInputs < MaxResizeInputs
    /\ rhInputs' = rhInputs + 1
    /\ rhIsResizing' = TRUE
    /\ rhCurrentCardId' = elHandleGroups[n][k].cardId
    /\ rhCurrentElement' = n
    /\ rhActiveHandle' = corner
    /\ rhCurrentImage' = (elImage[n] # <<>>)
    /\ rhImageNatural' = IF elImage[n] # <<>>
                         THEN ImageNaturalSize(elImage[n][1])
                         ELSE <<>>
    /\ rhStartX' = RDiv(R(p[1]), scale)
    /\ rhStartY' = RDiv(R(p[2]), scale)
    /\ rhInitialX' = InitialPosition(elTransform[n])[1]
    /\ rhInitialY' = InitialPosition(elTransform[n])[2]
    /\ rhInitialWidth' = RDiv(RectWidth(n), scale)
    /\ rhInitialHeight' = RDiv(RectHeight(n), scale)
    /\ rhPhase' = "active"
    /\ rhDown' = p
    /\ rhLast' = <<>>
    /\ rhPre' = [node |-> n, corner |-> corner,
                 placed |-> (MatchTranslate(elTransform[n]) # <<>>),
                 x |-> ParseTransform(elTransform[n])[1],
                 y |-> ParseTransform(elTransform[n])[2],
                 w |-> RDiv(RectWidth(n), scale),
                 h |-> RDiv(RectHeight(n), scale)]
    /\ rhReport' = <<>>
    /\ rhCommits' = 0
    /\ rhWritten' = <<>>
    /\ UNCHANGED <<elItem, elHandleGroups, rhRegistered, rhHandles, rhSelected,
                   rhDestroyed, rhRegs>>

\* handleMouseMove's corner arithmetic: the new geometry for the world-space
\* pointer delta (dx, dy) from the start geometry (ix, iy, iw, ih)
ResizeGeometry(corner, dx, dy, ix, iy, iw, ih) ==
    LET wGrow == RMax(R(MIN_W), RAdd(iw, dx))
        wShrink == RMax(R(MIN_W), RSub(iw, dx))
        hGrow == RMax(R(MIN_H), RAdd(ih, dy))
        hShrink == RMax(R(MIN_H), RSub(ih, dy))
    IN  CASE corner = "br" -> [x |-> ix, y |-> iy, w |-> wGrow, h |-> hGrow]
          [] corner = "bl" -> [x |-> RAdd(ix, RSub(iw, wShrink)), y |-> iy,
                               w |-> wShrink, h |-> hGrow]
          [] corner = "tr" -> [x |-> ix, y |-> RAdd(iy, RSub(ih, hShrink)),
                               w |-> wGrow, h |-> hShrink]
          [] corner = "tl" -> [x |-> RAdd(ix, RSub(iw, wShrink)),
                               y |-> RAdd(iy, RSub(ih, hShrink)),
                               w |-> wShrink, h |-> hShrink]

\* handleMouseMove on window: an active resize writes the node's width, height
\* and transform, and rescales its image
ResizeMouseMove(p) ==
    /\ ~rhDestroyed
    /\ rhIsResizing => rhInputs < MaxResizeInputs
    /\ rhInputs' = IF rhIsResizing THEN rhInputs + 1 ELSE rhInputs
    /\ rhLast' = IF rhPhase = "active" THEN p ELSE rhLast
    /\ IF ~rhIsResizing \/ rhCurrentElement = NoNode \/ rhActiveHandle = NoCorner
       THEN UNCHANGED <<elTransform, elWidth, elHeight, elImage, rhWritten>>
       ELSE LET geo == ResizeGeometry(rhActiveHandle,
                           RSub(RDiv(R(p[1]), scale), rhStartX),
                           RSub(RDiv(R(p[2]), scale), rhStartY),
                           rhInitialX, rhInitialY, rhInitialWidth, rhInitialHeight)
            IN  /\ rhWritten' = <<geo>>
                /\ elWidth' = [elWidth EXCEPT ![rhCurrentElement] = geo.w]
                /\ elHeight' = [elHeight EXCEPT ![rhCurrentElement] = geo.h]
                /\ elTransform' = [elTransform EXCEPT ![rhCurrentElement] =
                                      <<geo.x, geo.y>>]
                /\ elImage' =
                     IF rhCurrentImage /\ rhImageNatural # <<>>
                     THEN [elImage EXCEPT ![rhCurrentElement] =
                             << [@[1] EXCEPT !.scale =
                                   << RDiv(geo.w, rhImageNatural[1]),
                                      RDiv(geo.h, rhImageNatural[2]) >>] >>]
                     ELSE elImage
    /\ UNCHANGED <<elLift, elDragListeners, elDragHandler, elHandleGroups,
                   rhRegistered, rhHandles, rhSelected, rhGesture, rhDestroyed,
                   rhPhase, rhDown, rhPre, rhReport, rhCommits, rhRegs>>

\* the pointer-up handler leaves isResizing set
ResizeStateAfterUpKept == rhIsResizing

\* handleMouseUp: isResizing = false
ResizeStateAfterUp == FALSE

\* handleMouseUp on window: an active resize reports the geometry parsed back
\* from the node's inline style through onResizeEnd and clears the gesture
ResizeMouseUp ==
    /\ ~rhDestroyed
    /\ rhPhase' = IF rhPhase = "active" THEN "ended" ELSE rhPhase
    /\ IF ~rhIsResizing \/ rhCurrentElement = NoNode \/ rhCurrentCardId = NoId
       THEN UNCHANGED <<rhReport, rhCommits, rhGesture>>
       ELSE LET m == MatchTranslate(elTransform[rhCurrentElement])
            IN  /\ rhReport' = << [cardId |-> rhCurrentCardId,
                                   x |-> IF m # <<>> THEN m[1] ELSE rhInitialX,
                                   y |-> IF m # <<>> THEN m[2] ELSE rhInitialY,
                                   w |-> ParseFloat(elWidth[rhCurrentElement]),
                                   h |-> ParseFloat(elHeight[rhCurrentElement])] >>
                /\ rhCommits' = rhCommits + 1
                /\ rhIsResizing' = ResizeStateAfterUp
                /\ rhCurrentCardId' = NoId
                /\ rhCurrentElement' = NoNode
                /\ rhCurrentImage' = FALSE
                /\ rhImageNatural' = <<>>
                /\ rhActiveHandle' = NoCorner
                /\ UNCHANGED <<rhStartX, rhStartY, rhInitialX, rhInitialY,
                               rhInitialWidth, rhInitialHeight>>
    /\ UNCHANGED <<elItem, elHandleGroups, rhRegistered, rhHandles, rhSelected,
                   rhDestroyed, rhDown, rhLast, rhPre, rhWritten, rhInputs,
                   rhRegs>>

\* the handle groups of all nodes without the tracked groups
RECURSIVE WithoutTracked(_, _)
WithoutTracked(seq, tracked) ==
    IF seq = <<>> THEN <<>>
    ELSE IF Head(seq).g \in tracked THEN WithoutTracked(Tail(seq), tracked)
         ELSE <<Head(seq)>> \o WithoutTracked(Tail(seq), tracked)

\* destroy: remove the window listeners, remove every tracked handle from the
\* DOM and clear both registries
ResizeDestroy ==
    /\ rhDestroyed' = TRUE
    /\ elHandleGroups' = [n \in Nodes |->
          WithoutTracked(elHandleGroups[n], { rhHandles[i] : i \in Ids } \ {0})]
    /\ rhHandles' = [i \in Ids |-> 0]
    /\ rhRegistered' = [i \in Ids |-> NoNode]
    /\ UNCHANGED <<elItem, rhSelected, rhGesture, rhHistory, rhInputs, rhRegs>>

NextResize ==
    \/ \E pr \in RegisterPairs : ResizeRegister(pr[1], pr[2])
    \/ \E id \in Ids : ResizeUnregister(id)
    \/ \E id \in Ids \cup {NoId} : ResizeSetSelected(id)
    \/ \E n \in Nodes, k \in 1..MaxRegs, c \in Corners, p \in ResizeDownPoints :
          ResizeStart(n, k, c, p)
    \/ \E p \in ResizePoints : ResizeMouseMove(p)
    \/ ResizeMouseUp
    \/ ResizeDestroy

-----------------------------------------------------------------------------
(* Item store and item persistence.                                        *)

\* how many store operations a behaviour makes
MaxCardOps == 2

\* the item records an earlier session left in the cards table, in key order:
\* the sized item a at (0, 0) and the item b, never resized, at (100, 100)
StoredCards ==
    << [id |-> "a", x |-> R(0), y |-> R(0), size |-> <<R(200), R(100)>>,
        content |-> "image"],
       [id |-> "b", x |-> R(100), y |-> R(100), size |-> <<>>,
        content |-> "text"] >>

\* the ids, positions and geometries the store operations are called with;
\* "zz" is the id of no item
CardIdInputs == { "a", "zz" }
CardPositions == { <<R(10), R(10)>> }
CardGeometries == { [x |-> R(10), y |-> R(10), w |-> R(80), h |-> R(60)] }

\* useCardStore as created: no items, not hydrated; no write is in flight
InitStore ==
    /\ cards = <<>>
    /\ isHydrated = FALSE
    /\ cardWrites = <<>>
    /\ dbCards = StoredCards
    /\ swallowed = {}
    /\ cardOps = 0

\* the index of the item with this id in a list of items, 0 when there is none
CardIndex(list, id) ==
    IF \E i \in 1..Len(list) : list[i].id = id
    THEN CHOOSE i \in 1..Len(list) : list[i].id = id
    ELSE 0

\* cards.filter((c) => c.id !== id)
RECURSIVE WithoutCard(_, _)
WithoutCard(list, id) ==
    IF list = <<>> THEN <<>>
    ELSE IF Head(list).id = id THEN WithoutCard(Tail(list), id)
         ELSE <<Head(list)>> \o WithoutCard(Tail(list), id)

\* db.cards.put: replace the record with the same key, or add it
PutCard(table, card) ==
    IF CardIndex(table, card.id) # 0
    THEN [table EXCEPT ![CardIndex(table, card.id)] = card]
    ELSE Append(table, card)

\* hydrate: the awaited loadCards resolves with the table, or with no items
\* when the read fails, and the result replaces the collection
Hydrate(ok) ==
    /\ ~isHydrated
    /\ isHydrated' = TRUE
    /\ cards' = IF ok THEN dbCards ELSE <<>>
    /\ UNCHANGED <<cardWrites, dbCards, swallowed, cardOps>>

\* an update for an id that is not in the collection adds the item
ReplaceOrAddAndSave(id, updated) ==
    /\ cards' = IF CardIndex(cards, id) # 0
                THEN [cards EXCEPT ![CardIndex(cards, id)] = updated]
                ELSE Append(cards, updated)
    /\ cardWrites' = Append(cardWrites, [op |-> "put", card |-> updated])
    /\ UNCHANGED <<isHydrated, dbCards, swallowed>>

\* the store's update pattern: when cards.find gives the item, replace it by
\* `updated` in the collection, then start saveCard(updated) without awaiting
\* it; an unknown id does nothing
ReplaceAndSave(id, updated) ==
    /\ IF CardIndex(cards, id) # 0
       THEN /\ cards' = [cards EXCEPT ![CardIndex(cards, id)] = updated]
            /\ cardWrites' = Append(cardWrites, [op |-> "put", card |-> updated])
       ELSE UNCHANGED <<cards, cardWrites>>
    /\ UNCHANGED <<isHydrated, dbCards, swallowed>>

\* the item a store operation works on: the one cards.find gives or, for the
\* variant above that adds the item, a blank one
FoundCard(id) ==
    IF CardIndex(cards, id) # 0 THEN cards[CardIndex(cards, id)]
    ELSE [id |-> id, x |-> R(0), y |-> R(0), size |-> <<>>, content |-> ""]

\* updateCardPosition: { ...card, position: { x, y } }
UpdateCardPosition(id, pos) ==
    ReplaceAndSave(id, [FoundCard(id) EXCEPT !.x = pos[1], !.y = pos[2]])

\* updateCardGeometry: { ...card, position: { x, y }, size: { w, h } }
UpdateCardGeometry(id, x, y, w, h) ==
    ReplaceAndSave(id, [FoundCard(id) EXCEPT !.x = x, !.y = y,
                                             !.size = <<w, h>>])

\* removeCard: filter the item out of the collection, then start
\* deleteCard(id)
RemoveCard(id) ==
    /\ cards' = WithoutCard(cards, id)
    /\ cardWrites' = Append(cardWrites, [op |-> "delete", id |-> id])
    /\ UNCHANGED <<isHydrated, dbCards, swallowed>>

\* clearAll: empty the collection, then start clearAllCards()
ClearAll ==
    /\ cards' = <<>>
    /\ cardWrites' = Append(cardWrites, [op |-> "clear"])
    /\ UNCHANGED <<isHydrated, dbCards, swallowed>>

\* on a failed put the collection is reloaded from the table
SaveCardReloads(ok) ==
    /\ cardWrites # <<>> /\ Head(cardWrites).op = "put"
    /\ cardWrites' = Tail(cardWrites)
    /\ dbCards' = IF ok THEN PutCard(dbCards, Head(cardWrites).card) ELSE dbCards
    /\ cards' = IF ok THEN cards ELSE dbCards
    /\ swallowed' = IF ok THEN swallowed ELSE swallowed \cup {"card"}
    /\ UNCHANGED <<isHydrated, cardOps>>

\* saveCard: the awaited db.cards.put of the oldest write in flight succeeds
\* or fails; a failure is caught and only logged
SaveCard(ok) ==
    /\ cardWrites # <<>> /\ Head(cardWrites).op = "put"
    /\ cardWrites' = Tail(cardWrites)
    /\ dbCards' = IF ok THEN PutCard(dbCards, Head(cardWrites).card) ELSE dbCards
    /\ swallowed' = IF ok THEN swallowed ELSE swallowed \cup {"card"}
    /\ UNCHANGED <<cards, isHydrated, cardOps>>

\* deleteCard / clearAllCards: the awaited db.cards.delete or db.cards.clear
\* of the oldest write in flight succeeds or fails; a failure is caught and
\* only logged
DeleteCard(ok) ==
    /\ cardWrites # <<>> /\ Head(cardWrites).op = "delete"
    /\ cardWrites' = Tail(cardWrites)
    /\ dbCards' = IF ok THEN WithoutCard(dbCards, Head(cardWrites).id)
                  ELSE dbCards
    /\ swallowed' = IF ok THEN swallowed ELSE swallowed \cup {"card"}
    /\ UNCHANGED <<cards, isHydrated, cardOps>>

ClearAllCards(ok) ==
    /\ cardWrites # <<>> /\ Head(cardWrites).op = "clear"
    /\ cardWrites' = Tail(cardWrites)
    /\ dbCards' = IF ok THEN <<>> ELSE dbCards
    /\ swallowed' = IF ok THEN swallowed ELSE swallowed \cup {"card"}
    /\ UNCHANGED <<cards, isHydrated, cardOps>>

\* the store called from outside a gesture, within the budget
StoreOperation ==
    /\ cardOps < MaxCardOps
    /\ cardOps' = cardOps + 1
    /\ \/ \E id \in CardIdInputs, pos \in CardPositions :
             UpdateCardPosition(id, pos)
       \/ \E id \in CardIdInputs, g \in CardGeometries :
             UpdateCardGeometry(id, g.x, g.y, g.w, g.h)
       \/ \E id \in CardIdInputs : RemoveCard(id)
       \/ ClearAll

NextStore ==
    \/ \E ok \in BOOLEAN : Hydrate(ok)
    \/ StoreOperation
    \/ \E ok \in BOOLEAN : SaveCard(ok)
    \/ \E ok \in BOOLEAN : DeleteCard(ok)
    \/ \E ok \in BOOLEAN : ClearAllCards(ok)

-----------------------------------------------------------------------------
(* Specifications.                                                         *)

\* the viewport controller from construction on; no item gesture runs
Init == InitViewport /\ InitDom /\ InitDrag /\ InitResize /\ InitStore
Next == NextViewport /\ UNCHANGED <<domVars, dhVars, rhVars, stVars>>
Spec == Init /\ [][Next]_vars

\* the same with the browser's scheduling: a queued frame callback, a running
\* timer and a pending promise are eventually run (for the frame callback,
\* which is enabled exactly while the queue is non-empty and empties it, the
\* condition is stated on the queue)
SpecLive ==
    /\ Init /\ [][Next]_vars
    /\ []<>(rafQueue = {})
    /\ WF_vars(WheelEndTimer /\ UNCHANGED <<domVars, dhVars, rhVars, stVars>>)
    /\ WF_vars((\E ok \in BOOLEAN : SaveViewport(ok))
                 /\ UNCHANGED <<domVars, dhVars, rhVars, stVars>>)
    /\ WF_vars((\E ok \in BOOLEAN : InitLoaded(ok))
                 /\ UNCHANGED <<domVars, dhVars, rhVars, stVars>>)

\* item nodes one of which carries no inline transform: n2 as a host leaves
\* it that registers a node before giving it a position (a translate3d written
\* in exponent notation reads the same way to the resize controller)
InitDomUnplaced ==
    /\ elTransform = [n \in Nodes |->
                        IF n = "n1" THEN <<R(0), R(0)>> ELSE <<>>]
    /\ elWidth  = [n \in Nodes |-> IF n = "n1" THEN R(200) ELSE <<>>]
    /\ elHeight = [n \in Nodes |-> IF n = "n1" THEN R(100) ELSE <<>>]
    /\ elLift = [n \in Nodes |-> "unset"]
    /\ elDragListeners = [n \in Nodes |-> <<>>]
    /\ elDragHandler = [n \in Nodes |-> 0]
    /\ elImage = [n \in Nodes |->
                    IF n = "n1"
                    THEN << [width |-> R(100), height |-> R(50),
                             scale |-> <<R(2), R(2)>>] >>
                    ELSE <<>>]
    /\ elHandleGroups = [n \in Nodes |-> <<>>]

\* the drag controller from construction on, at a viewport scale that stays
\* constant
InitDragSpec ==
    /\ \E s \in GestureScales : IdleViewport(s)
    /\ InitDom /\ InitDrag /\ InitResize /\ InitStore
NextDragSpec == NextDrag /\ UNCHANGED <<vpVars, rhVars, stVars>>
SpecDrag == InitDragSpec /\ [][NextDragSpec]_vars

\* drag gestures while the canvas is scrolled: pixel-mode wheel events (pan
\* intent) and their frame callbacks change the viewport translate before and
\* during the gestures; the scale stays constant
MaxScrolls == 1
ScrollEvents == { e \in WheelEvents : ~IsZoomIntent(e) }
NextDragScroll ==
    \/ /\ \/ \E pr \in RegisterPairs : DragRegister(pr[1], pr[2])
          \/ \E n \in Nodes, b \in DragButtons, p \in DragPoints :
                DragMouseDown(n, b, p)
          \/ \E p \in DragPoints : DragMouseMove(p)
          \/ DragMouseUp
       /\ UNCHANGED <<vpVars, rhVars, stVars>>
    \/ /\ \/ /\ wheelCount < MaxScrolls
             /\ \E e \in ScrollEvents : HandleWheelWithSave(e)
          \/ ProcessFrame
       /\ UNCHANGED <<domVars, dhVars, rhVars, stVars>>
SpecDragScroll == InitDragSpec /\ [][NextDragScroll]_vars

\* the resize controller from construction on, at a viewport scale that stays
\* constant
NextResizeSpec == NextResize /\ UNCHANGED <<vpVars, dhVars, stVars>>
SpecResize == InitDragSpec /\ [][NextResizeSpec]_vars

\* any one of the three controllers from construction on, with a smaller
\* budget of inputs: the controllers share no state, and a behaviour
\* exercises one of them while the other two stay as constructed
MaxEach == 1
ViewportAtRest == \E s \in GestureScales : IdleViewport(s)
InitEach ==
    /\ InitViewport \/ ViewportAtRest
    /\ InitDom /\ InitDrag /\ InitResize /\ InitStore
NextEach ==
    \/ /\ InitDom /\ InitDrag /\ InitResize
       /\ NextViewport
       /\ wheelCount' + moveCount' + downCount' <= MaxEach
       /\ UNCHANGED <<domVars, dhVars, rhVars, stVars>>
    \/ /\ ViewportAtRest /\ InitResize
       /\ NextDrag
       /\ dhMoves' <= MaxEach /\ dhRegs' <= MaxEach
       /\ UNCHANGED <<vpVars, rhVars, stVars>>
    \/ /\ ViewportAtRest /\ InitDrag
       /\ NextResize
       /\ rhInputs' <= MaxEach + 1 /\ rhRegs' <= MaxEach
       /\ UNCHANGED <<vpVars, dhVars, stVars>>
SpecEach == InitEach /\ [][NextEach]_vars

\* drag gestures while the canvas is zoomed: zoom-intent wheel events arrive
\* while a drag is active and their frame callbacks change the viewport scale
\* during the gesture; primary-button drags of the item n1 under a smaller
\* budget of registrations and pointer-moves
ZoomEvents == { e \in WheelEvents : IsZoomIntent(e) }
NextDragZoom ==
    \/ /\ \/ DragRegister("n1", "a")
          \/ \E p \in DragPoints : DragMouseDown("n1", 0, p)
          \/ \E p \in DragPoints : DragMouseMove(p)
          \/ DragMouseUp
       /\ dhMoves' <= MaxEach /\ dhRegs' <= MaxEach
       /\ UNCHANGED <<vpVars, rhVars, stVars>>
    \/ /\ \/ /\ wheelCount < MaxScrolls
             /\ dhPhase = "active"
             /\ \E e \in ZoomEvents : HandleWheelWithSave(e)
          \/ ProcessFrame
       /\ UNCHANGED <<domVars, dhVars, rhVars, stVars>>
SpecDragZoom == InitDragSpec /\ [][NextDragZoom]_vars

\* The three controllers on one page.  A pointer-down is dispatched to the
\* listeners of its target and bubbles to the container unless a listener
\* stops it; pointer-moves and pointer-ups go to the window listeners of all
\* three controllers.

\* a button is held: the last pointer-down has not been followed by a
\* pointer-up yet (a press that starts nothing leaves no trace and changes
\* nothing)
PointerHeld == dhPhase = "active" \/ rhPhase = "active" \/ isDragging

\* the background presses: pointer-downs on the container or transform layer
BackgroundPresses ==
    { e \in MouseDownEvents : e.target \in {"container", "transform"} }

\* pointer-down on the background: only the container's listener runs
PressBackground(e) ==
    /\ HandleMouseDown(e)
    /\ UNCHANGED <<domVars, dhVars, rhVars>>

\* the pointer-down on a node also reaches the viewport controller as a
\* background press
PressNodeSeenAsBackground(n, button, p) ==
    /\ DragMouseDown(n, button, p)
    /\ HandleMouseDown([button |-> button, target |-> "container",
                        clientX |-> p[1], clientY |-> p[2]])
    /\ UNCHANGED rhVars

\* pointer-down on an item node (or its content): a primary-button press on
\* a node with a drag listener starts the drag and stops the propagation;
\* any other press bubbles to the container, whose listener sees a target
\* that is not the background
PressNode(n, button, p) ==
    IF elDragListeners[n] # <<>> /\ button = 0
    THEN DragMouseDown(n, button, p) /\ UNCHANGED <<vpVars, rhVars>>
    ELSE /\ HandleMouseDown([button |-> button, target |-> "card",
                             clientX |-> p[1], clientY |-> p[2]])
         /\ UNCHANGED <<domVars, dhVars, rhVars>>

\* pointer-down on a displayed corner handle: handleResizeStart stops the
\* propagation, so neither the node's drag listener nor the container's
\* listener runs
PressHandle(n, k, corner, p) ==
    /\ ResizeStart(n, k, corner, p)
    /\ UNCHANGED <<vpVars, dhVars>>

\* pointer-move on window: the three handleMouseMove listeners run; a
\* controller without an active gesture returns at its guard
GestureMouseMove(p) ==
    /\ HandleMouseMove(p)
    /\ \/ /\ ~rhIsResizing /\ rhPhase # "active"
          /\ DragMouseMove(p)
          /\ UNCHANGED rhVars
       \/ /\ rhIsResizing /\ ~dhIsDragging
          /\ ResizeMouseMove(p)
          /\ UNCHANGED dhVars

\* pointer-up on window: the three handleMouseUp listeners run; the resize
\* controller's returns at its guard when no resize is active
GestureMouseUp ==
    /\ HandleMouseUp
    /\ \/ /\ ~dhIsDragging
          /\ DragMouseUp
          /\ ResizeMouseUp
       \/ /\ dhIsDragging /\ ~rhIsResizing /\ rhPhase # "active"
          /\ DragMouseUp
          /\ UNCHANGED rhVars

\* the pointer positions of the page's gestures: one press point on the
\* items and one point the pointer moves to
GesturePress == <<110, 70>>
GestureMove == <<160, 50>>

\* gestures on the page with the item a on node n1, every pointer-down
\* followed by a pointer-up before the next pointer-down
GestureBudget ==
    /\ wheelCount' + moveCount' + downCount' <= MaxEach + 1
    /\ dhMoves' <= MaxEach /\ dhRegs' <= MaxEach
    /\ rhInputs' <= MaxEach + 1 /\ rhRegs' <= MaxEach
    /\ UNCHANGED stVars
NextGesture ==
    \/ /\ DragRegister("n1", "a")
       /\ UNCHANGED <<vpVars, rhVars>>
       /\ GestureBudget
    \/ /\ ResizeRegister("n1", "a")
       /\ UNCHANGED <<vpVars, dhVars>>
       /\ GestureBudget
    \/ /\ \E id \in {"a", NoId} : ResizeSetSelected(id)
       /\ UNCHANGED <<vpVars, dhVars>>
       /\ GestureBudget
    \/ /\ ~PointerHeld
       /\ \E e \in BackgroundPresses : PressBackground(e)
       /\ GestureBudget
    \/ /\ ~PointerHeld
       /\ \E b \in DragButtons : PressNode("n1", b, GesturePress)
       /\ GestureBudget
    \/ /\ ~PointerHeld
       /\ \E k \in 1..MaxRegs, c \in Corners, p \in ResizeDownPoints :
             PressHandle("n1", k, c, p)
       /\ GestureBudget
    \/ GestureMouseMove(GestureMove) /\ GestureBudget
    \/ GestureMouseUp /\ GestureBudget
InitGesture ==
    /\ IdleViewport(R(1))
    /\ InitDom /\ InitDrag /\ InitResize /\ InitStore
SpecGesture == InitGesture /\ [][NextGesture]_vars

\* the resize controller over nodes one of which has no inline transform,
\* with a smaller budget of registrations and gesture inputs
InitUnplaced ==
    /\ \E s \in GestureScales : IdleViewport(s)
    /\ InitDomUnplaced /\ InitDrag /\ InitResize /\ InitStore
NextResizeUnplaced ==
    /\ NextResizeSpec
    /\ rhInputs' <= MaxEach + 1 /\ rhRegs' <= MaxEach
SpecResizeUnplaced == InitUnplaced /\ [][NextResizeUnplaced]_vars

\* pan gestures, scrolling and the viewport's saves together with hydrate,
\* position updates and the item saves: every write to the database may fail
NextPersist ==
    \/ /\ \/ \E e \in MouseDownEvents : HandleMouseDown(e)
          \/ \E p \in MousePoints : HandleMouseMove(p)
          \/ HandleMouseUp
          \/ /\ wheelCount < MaxScrolls
             /\ \E e \in ScrollEvents : HandleWheelWithSave(e)
          \/ ProcessFrame
          \/ WheelEndTimer
          \/ \E ok \in BOOLEAN : InitLoaded(ok)
       /\ UNCHANGED <<domVars, dhVars, rhVars, stVars>>
    \/ /\ \E ok \in BOOLEAN :
             /\ SaveViewport(ok)
             /\ swallowed' = IF ok THEN swallowed ELSE swallowed \cup {"viewport"}
       /\ UNCHANGED <<domVars, dhVars, rhVars, cards, isHydrated, cardWrites,
                      dbCards, cardOps>>
    \/ /\ \/ \E ok \in BOOLEAN : Hydrate(ok)
          \/ /\ cardOps < MaxCardOps
             /\ cardOps' = cardOps + 1
             /\ \E id \in CardIdInputs, pos \in CardPositions :
                   UpdateCardPosition(id, pos)
          \/ \E ok \in BOOLEAN : SaveCard(ok)
       /\ UNCHANGED <<vpVars, domVars, dhVars, rhVars>>
SpecPersist == Init /\ [][NextPersist]_vars

\* The host view (Canvas): it builds the drag controller with
\* updateCardPosition and the resize controller with updateCardGeometry as
\* end-of-gesture callbacks, mounts a Card for every item of the collection
\* (the Card registers its node with both controllers, and unregisters it
\* when it unmounts), and removes the selected item on the delete key.

\* the resize end is relayed as (id, w, h) = (id, x, y) to updateCardSize
RelayResizeEndAsSize(r) ==
    ReplaceAndSave(r.cardId, [FoundCard(r.cardId) EXCEPT !.size = <<r.x, r.y>>])

\* onDragEnd / onResizeEnd as the host passes them
RelayDragEnd(r) == UpdateCardPosition(r.cardId, <<r.x, r.y>>)
RelayResizeEnd(r) == UpdateCardGeometry(r.cardId, r.x, r.y, r.w, r.h)

\* window pointer-up with the drag controller's callback run inside it (the
\* store operations a behaviour makes are counted, callbacks included)
HostDragMouseUp ==
    /\ DragMouseUp
    /\ IF dhCommits' = dhCommits + 1
       THEN RelayDragEnd(dhReport'[1]) /\ cardOps' = cardOps + 1
       ELSE UNCHANGED stVars

\* window pointer-up with the resize controller's callback run inside it
HostResizeMouseUp ==
    /\ ResizeMouseUp
    /\ IF rhCommits' = rhCommits + 1
       THEN RelayResizeEnd(rhReport'[1]) /\ cardOps' = cardOps + 1
       ELSE UNCHANGED stVars

\* the item's Card is mounted: the item is in the collection
Mounted(id) == CardIndex(cards, id) # 0

\* the item is removed (delete key, context menu) while the drag controller
\* is the one in use: removeCard, and the unmounting Card unregisters its node
HostRemoveDuringDrag(id) ==
    /\ Mounted(id)
    /\ cardOps' = cardOps + 1
    /\ RemoveCard(id)
    /\ DragUnregister(id)

\* the same while the resize controller is the one in use
HostRemoveDuringResize(id) ==
    /\ Mounted(id)
    /\ cardOps' = cardOps + 1
    /\ RemoveCard(id)
    /\ ResizeUnregister(id)

\* the menu's "clear all" while the drag controller is the one in use:
\* clearAll when the collection is not empty, and every unmounting Card
\* unregisters its node (the Cards' nodes are distinct)
HostClearAllDuringDrag ==
    /\ cards # <<>>
    /\ cardOps' = cardOps + 1
    /\ ClearAll
    /\ elDragListeners' =
          [n \in Nodes |->
              IF elDragHandler[n] # 0
                 /\ \E i \in Ids : Mounted(i) /\ dhRegistered[i] = n
              THEN Without(elDragListeners[n], elDragHandler[n])
              ELSE elDragListeners[n]]
    /\ dhRegistered' = [i \in Ids |-> IF Mounted(i) THEN NoNode
                                      ELSE dhRegistered[i]]
    /\ UNCHANGED <<elTransform, elWidth, elHeight, elLift, elDragHandler,
                   elImage, elHandleGroups>>
    /\ UNCHANGED <<dhIsDragging, dhCurrentCardId, dhCurrentElement, dhStartX,
                   dhStartY, dhInitialTransformX, dhInitialTransformY,
                   dhDestroyed, dhHistory, dhMoves, dhRegs>>

\* the same while the resize controller is the one in use
HostClearAllDuringResize ==
    /\ cards # <<>>
    /\ cardOps' = cardOps + 1
    /\ ClearAll
    /\ elHandleGroups' =
          [n \in Nodes |->
              SelectSeq(elHandleGroups[n],
                        LAMBDA e : ~\E i \in Ids : /\ Mounted(i)
                                                   /\ rhHandles[i] # 0
                                                   /\ e.g = rhHandles[i])]
    /\ rhHandles' = [i \in Ids |-> IF Mounted(i) THEN 0 ELSE rhHandles[i]]
    /\ rhRegistered' = [i \in Ids |-> IF Mounted(i) THEN NoNode
                                      ELSE rhRegistered[i]]
    /\ UNCHANGED <<elItem, rhSelected, rhGesture, rhDestroyed, rhHistory,
                   rhInputs, rhRegs>>

\* one of the two item controllers under the host, with the store: a
\* behaviour exercises the drag controller or the resize controller; the
\* writes the store starts stay in flight
NextHost ==
    \/ /\ InitResize
       /\ \/ /\ \/ \E pr \in RegisterPairs :
                      Mounted(pr[2]) /\ DragRegister(pr[1], pr[2])
                \/ \E n \in Nodes, b \in DragButtons, p \in DragPoints :
                      DragMouseDown(n, b, p)
                \/ \E p \in DragPoints : DragMouseMove(p)
             /\ UNCHANGED stVars
          \/ HostDragMouseUp
          \/ \E id \in Ids : HostRemoveDuringDrag(id)
          \/ HostClearAllDuringDrag
       /\ dhMoves' <= MaxEach /\ dhRegs' <= MaxEach
       /\ cardOps' <= MaxCardOps
       /\ UNCHANGED <<vpVars, rhVars>>
    \/ /\ InitDrag
       /\ \/ /\ \/ \E pr \in RegisterPairs :
                      Mounted(pr[2]) /\ ResizeRegister(pr[1], pr[2])
                \/ \E id \in Ids \cup {NoId} : ResizeSetSelected(id)
                \/ \E n \in Nodes, k \in 1..MaxRegs, c \in Corners,
                      p \in ResizeDownPoints : ResizeStart(n, k, c, p)
                \/ \E p \in ResizePoints : ResizeMouseMove(p)
             /\ UNCHANGED stVars
          \/ HostResizeMouseUp
          \/ \E id \in Ids : HostRemoveDuringResize(id)
          \/ HostClearAllDuringResize
       /\ rhInputs' <= MaxEach + 1 /\ rhRegs' <= MaxEach
       /\ cardOps' <= MaxCardOps
       /\ UNCHANGED <<vpVars, dhVars>>
    \/ /\ \E ok \in BOOLEAN : Hydrate(ok)
       /\ UNCHANGED <<vpVars, domVars, dhVars, rhVars>>
SpecHost == InitDragSpec /\ [][NextHost]_vars

\* a pan gesture in progress, interleaved with scroll wheel events and frame
\* callbacks: the viewport as a primary-button press on the background leaves
\* it, then pointer-moves, pan-intent wheel events and frame callbacks in any
\* order, up to the release; the scale stays constant
InitPanMix ==
    /\ \E s \in GestureScales, e \in { d \in MouseDownEvents : PanStarts(d) } :
          /\ scale = s /\ translateX = R(0) /\ translateY = R(0)
          /\ isDragging = TRUE /\ dragStartX = e.clientX /\ dragStartY = e.clientY
          /\ transformStyle = << Viewport(s, R(0), R(0)) >>
          /\ panTrack = << PanStarted(e) >>
    /\ pendingPanX = 0 /\ pendingPanY = 0 /\ pendingZoom = <<>>
    /\ rafId = 0 /\ rafQueue = {}
    /\ saveTimeout = "null"
    /\ loadPending = FALSE
    /\ destroyed = FALSE
    /\ debounceTimer = <<>>
    /\ dbViewport = <<>>
    /\ frameEvents = <<>> /\ lastZoom = <<>>
    /\ wheelCount = 0 /\ moveCount = 0 /\ downCount = 0
    /\ quietSinceRelease = FALSE
    /\ InitDom /\ InitDrag /\ InitResize /\ InitStore
NextPanMix ==
    /\ \/ \E p \in MousePoints : HandleMouseMove(p)
       \/ \E e \in ScrollEvents : HandleWheelWithSave(e)
       \/ ProcessFrame
       \/ HandleMouseUp
       \/ WheelEndTimer
       \/ \E ok \in BOOLEAN : SaveViewport(ok)
    /\ UNCHANGED <<domVars, dhVars, rhVars, stVars>>
SpecPanMix == InitPanMix /\ [][NextPanMix]_vars

\* the item store alone: every operation, with ids of items and of no item
SpecStore == Init /\ [][NextStore /\ UNCHANGED <<vpVars, domVars, dhVars, rhVars>>]_vars

-----------------------------------------------------------------------------
(* Claims about the viewport controller, checked under Spec.               *)

\* C1: zoom anchoring.  Whenever a frame callback has applied a zoom at screen
\* point P (clamped at MIN_SCALE / MAX_SCALE or not), screenToCanvas(P) taken
\* with the viewport zoomAtPoint produced equals screenToCanvas(P) taken with
\* the viewport it started from: the world point under P has not moved.
C1_ZoomAnchored ==
    lastZoom # <<>> => lastZoom[1].worldAfter = lastZoom[1].worldBefore

\* a zoom whose scale was clamped has been applied by a frame callback
C1_ClampedZoomApplied ==
    /\ lastZoom # <<>>
    /\ lastZoom[1].clamped
    /\ scale = MAX_SCALE
    /\ transformStyle = <<CurrentViewport>>

\* C2: in every reachable state of the viewport controller the scale lies in
\* [MIN_SCALE, MAX_SCALE]; so does the scale of the persisted record.
C2_ScaleInRange ==
    /\ RLe(MIN_SCALE, scale) /\ RLe(scale, MAX_SCALE)
    /\ dbViewport # <<>> =>
          RLe(MIN_SCALE, dbViewport[1].scale) /\ RLe(dbViewport[1].scale, MAX_SCALE)

\* the persisted viewport has been loaded and a zoom-out was then clamped at
\* MIN_SCALE
C2_ClampedAtMinAfterLoad ==
    /\ ~loadPending
    /\ lastZoom # <<>> /\ lastZoom[1].clamped
    /\ scale = MIN_SCALE

\* C3: the transform a frame callback applies equals the transform obtained by
\* applying the deltas of all wheel events that arrived since the previous
\* frame callback (every zoom, then every pan).
C3_FrameAppliesAllDeltas ==
    [][ (frameEvents # <<>> /\ frameEvents' = <<>>)
          => transformStyle' = << AllDeltasApplied(CurrentViewport, frameEvents) >> ]_vars

\* C4: at most one frame callback is queued at any time, and, until destroy,
\* one is queued exactly while wheel events wait for the next frame: the wheel
\* events of one batch are served by exactly one processFrame run.
C4_OneFrameScheduled ==
    /\ Cardinality(rafQueue) <= 1
    /\ ~destroyed => ((frameEvents # <<>>) <=> (Cardinality(rafQueue) = 1))
    /\ ~destroyed => ((rafId # 0) <=> (rafQueue # {}))

\* two wheel events wait for the same, single, queued frame callback
C4_TwoWheelsOneFrame ==
    /\ Len(frameEvents) = 2
    /\ Cardinality(rafQueue) = 1

\* C21 as stated: during an active pan every pointer-move adds the pointer
\* delta since the previous pointer event to translate and repaints in the
\* same handler, with scale and the frame queue untouched, and at pointer-up
\* translate equals its value at pointer-down plus (last pointer position -
\* pointer-down position), i.e. its distance from that sum is zero.
C21_PanExactFromDown ==
    [][ /\ \A p \in MousePoints :
              HandleMouseMove(p) /\ isDragging =>
                /\ translateX' = RAdd(translateX, R(p[1] - panTrack[1].last[1]))
                /\ translateY' = RAdd(translateY, R(p[2] - panTrack[1].last[2]))
                /\ transformStyle'
                     = << Viewport(scale', translateX', translateY') >>
                /\ UNCHANGED <<scale, rafId, rafQueue, pendingPanX,
                               pendingPanY, pendingZoom>>
        /\ HandleMouseUp /\ isDragging =>
              /\ panTrack[1].dev0 = <<R(0), R(0)>>
              /\ UNCHANGED <<translateX, translateY>>
      ]_vars

\* C21, amended: the pointer-move part as stated; at pointer-up translate
\* equals (last pointer position - base pointer position) added to the base
\* translate, where the base is the pointer-down, or the latest frame callback
\* or viewport load that wrote translate during the gesture (translate right
\* after it, pointer position at it).
C21_PanExact ==
    [][ /\ \A p \in MousePoints :
              HandleMouseMove(p) /\ isDragging =>
                /\ translateX' = RAdd(translateX, R(p[1] - panTrack[1].last[1]))
                /\ translateY' = RAdd(translateY, R(p[2] - panTrack[1].last[2]))
                /\ transformStyle'
                     = << Viewport(scale', translateX', translateY') >>
                /\ UNCHANGED <<scale, rafId, rafQueue, pendingPanX,
                               pendingPanY, pendingZoom>>
        /\ HandleMouseUp /\ isDragging =>
              /\ panTrack[1].devb = <<R(0), R(0)>>
              /\ UNCHANGED <<translateX, translateY>>
      ]_vars

\* a pan from (110, 70) to (150, 50) on the default viewport was released:
\* the save issued by the release carries translate (40, -20)
C21_PanReleasedAfterMove ==
    /\ ~isDragging /\ wheelCount = 0 /\ moveCount = 1 /\ downCount = 1
    /\ CurrentViewport = Viewport(R(1), R(40), R(-20))
    /\ transformStyle = <<CurrentViewport>>
    /\ debounceTimer = <<CurrentViewport>>

\* C22: the pan gesture becomes active only by a primary-button pointer-down
\* whose target is the container or the transform layer; a pointer-down with
\* another button, or on an item node or a resize handle, leaves the pan flag,
\* the drag start and translate as they are, and a pointer-move with no pan
\* active leaves translate and the painted transform as they are.
C22_PanStartsOnBackgroundOnly ==
    [][ /\ \A e \in MouseDownEvents :
              (e.button # 0 \/ e.target \in {"card", "handle"})
              /\ HandleMouseDown(e) =>
                UNCHANGED <<isDragging, dragStartX, dragStartY, translateX,
                            translateY, scale, transformStyle>>
        /\ ~isDragging /\ isDragging' =>
              \E e \in MouseDownEvents :
                  /\ e.button = 0 /\ e.target \in {"container", "transform"}
                  /\ HandleMouseDown(e)
        /\ \A p \in MousePoints :
              HandleMouseMove(p) /\ ~isDragging =>
                UNCHANGED <<translateX, translateY, transformStyle>>
      ]_vars

\* a pointer-down and a pointer-move were delivered and no pan has started
\* (the drag start still has its initial value), no pan is active and the
\* viewport is still the default one
C22_RefusedDownThenMove ==
    /\ downCount >= 1 /\ moveCount >= 1 /\ wheelCount = 0
    /\ ~isDragging /\ dragStartX = 0 /\ dragStartY = 0
    /\ CurrentViewport = Viewport(R(1), R(0), R(0))

\* C23: a pointer-up that ends an active pan issues a viewport save carrying
\* the scale and translate at release, a pointer-up with no active pan issues
\* none, and after a release with no wheel event, pointer-down or pointer-move
\* following, the stored viewport record eventually equals the live viewport
\* and stays equal.
C23_PanReleasePersists ==
    /\ [][ HandleMouseUp =>
             IF isDragging THEN debounceTimer' = <<CurrentViewport>>
             ELSE UNCHANGED <<debounceTimer, dbViewport>> ]_vars
    /\ [](quietSinceRelease =>
            \/ <>(~quietSinceRelease)
            \/ <>[](dbViewport = <<CurrentViewport>>))

\* wheel input is waiting for a frame callback; a frame callback is queued;
\* the waiting input has been applied and written
InputPending == pendingZoom # <<>> \/ pendingPanX # 0 \/ pendingPanY # 0
FrameQueued == rafId # 0 /\ rafId \in rafQueue
InputApplied == ~InputPending /\ transformStyle = <<CurrentViewport>>

\* C40: the viewport load does not clobber input.  While the load started
\* at construction is pending and nothing has been written to the transform
\* node, the viewport is {1,0,0}; and the step in which the load resolves
\* leaves scale and translate as they are when pan/zoom input has already
\* been applied to the transform.
C40_LoadKeepsInput ==
    /\ []((loadPending /\ transformStyle = <<>>) =>
            CurrentViewport = Viewport(R(1), R(0), R(0)))
    /\ [][ (loadPending /\ ~loadPending' /\ transformStyle # <<>>) =>
             (scale' = scale /\ translateX' = translateX
                 /\ translateY' = translateY) ]_vars

\* C32 as stated: whenever the pending zoom is non-null or the pending pan is
\* non-zero, a frame callback is queued; and, when queued frame callbacks are
\* eventually run and destroy is not called, pending input is eventually
\* followed by a written transform with no input pending.
C32_NoWheelInputLostEver ==
    /\ [](InputPending => FrameQueued)
    /\ [](InputPending => <>(destroyed \/ InputApplied))

\* C32: no wheel input is lost.  Whenever the controller has not been
\* destroyed and the pending zoom is non-null or the pending pan is non-zero,
\* a frame callback is queued; and, when queued frame callbacks are eventually
\* run and destroy is not called, pending input is eventually followed by a
\* written transform with no input pending.
C32_NoWheelInputLost ==
    /\ []((~destroyed /\ InputPending) => FrameQueued)
    /\ [](InputPending => <>(destroyed \/ InputApplied))

\* two wheel events, a zoom and a scroll, have been applied by a frame
\* callback and nothing is pending
C32_WheelInputApplied ==
    /\ wheelCount = 2 /\ moveCount = 0 /\ downCount = 0
    /\ ~destroyed /\ InputApplied /\ rafId = 0
    /\ scale # R(1) /\ translateY # R(0)
    /\ lastZoom # <<>> /\ lastZoom[1].withPan

\* the sum of the (deltaX, deltaY) of the wheel events of a behaviour whose
\* wheel events are all the one pan-intent event of the model
ScrollSum ==
    LET e == CHOOSE w \in ScrollEvents : TRUE
    IN  <<R(wheelCount * e.deltaX), R(wheelCount * e.deltaY)>>

\* C33: interleaved drag-pan and wheel-pan lose no update.  In a pan gesture
\* interleaved in any order with pan-intent wheel events and frame callbacks,
\* whenever no frame callback is queued, translate is its value at
\* pointer-down plus the pointer's travel since pointer-down (the sum of the
\* drag deltas) minus the sum of the wheel events' (deltaX, deltaY); the
\* history records translate - (value at pointer-down) - (pointer travel).
C33_InterleavedPanExact ==
    (isDragging /\ rafQueue = {}) =>
        /\ panTrack[1].dev0[1] = RSub(R(0), ScrollSum[1])
        /\ panTrack[1].dev0[2] = RSub(R(0), ScrollSum[2])
        /\ transformStyle = <<CurrentViewport>>

\* a wheel event arrived during the pan, a pointer-move landed before its
\* frame callback ran, and the frame callback has run
C33_MoveBetweenWheelAndFrame ==
    /\ isDragging /\ rafQueue = {} /\ wheelCount = 1 /\ moveCount = 1
    /\ dragStartX = 150 /\ panTrack[1].last = <<150, 50>>
    /\ translateX = R(10) /\ translateY = R(0)
    /\ panTrack[1].devb = <<R(0), R(0)>>

C17_ViewportDestroyFinal ==
    [][ destroyed =>
          UNCHANGED <<scale, translateX, translateY, transformStyle>> ]_vars

\* the viewport that is on screen once the pending wheel deltas have been
\* applied by the queued frame callback
AfterPendingDeltas ==
    LET zoomed == IF pendingZoom # <<>>
                  THEN ZoomAtPoint(scale, translateX, translateY,
                                   pendingZoom[1].delta, pendingZoom[1].centerX,
                                   pendingZoom[1].centerY)
                  ELSE CurrentViewport
    IN  Viewport(zoomed.scale,
                 RAdd(zoomed.translateX, R(pendingPanX)),
                 RAdd(zoomed.translateY, R(pendingPanY)))

\* C19: a wheel event issues no viewport save (it only restarts the quiet
\* window), and the save issued when the quiet window ends carries the
\* viewport that is on screen after all pending wheel deltas have been
\* applied.
C19_IdleSaveAfterWheel ==
    [][ /\ (\E e \in WheelEvents : HandleWheelWithSave(e)) =>
              UNCHANGED <<debounceTimer, dbViewport>>
        /\ WheelEndTimer => debounceTimer' = <<AfterPendingDeltas>>
      ]_vars

\* the zoom-intent events among the wheel events of a frame
ZoomEventsOf(evs) == { k \in 1..Len(evs) : IsZoomIntent(evs[k]) }

\* C20: a frame callback that runs with one zoom and some pan pending applies
\* the zoom with the pre-frame translate and then adds the pan to the
\* resulting translate, whichever of the zoom event and the pan events
\* arrived first within the frame.
C20_ZoomBeforePan ==
    [][ ( /\ frameEvents # <<>> /\ frameEvents' = <<>>
          /\ Cardinality(ZoomEventsOf(frameEvents)) = 1
          /\ Len(frameEvents) > 1 )
        => LET ze == frameEvents[CHOOSE k \in ZoomEventsOf(frameEvents) : TRUE]
               z == ZoomAtPoint(scale, translateX, translateY, ZoomDelta(ze),
                                ze.clientX, ze.clientY)
           IN  /\ transformStyle' = <<ApplyPans(z, frameEvents)>>
               /\ <<scale', translateX', translateY'>> =
                     <<z.scale, ApplyPans(z, frameEvents).translateX,
                       ApplyPans(z, frameEvents).translateY>>
      ]_vars

\* a frame callback has applied a zoom and a pan together
C20_ZoomAndPanApplied ==
    /\ lastZoom # <<>> /\ lastZoom[1].withPan
    /\ frameEvents = <<>> /\ wheelCount = 2
    /\ scale # R(1)
    /\ transformStyle = <<CurrentViewport>>

-----------------------------------------------------------------------------
(* Claims about the drag controller, checked under SpecDrag.               *)

\* the id Card registers a node under
IdOfNode(n) == (CHOOSE pr \in RegisterPairs : pr[1] = n)[2]

\* C8: a drag gesture at constant scale s that starts with the node's visual
\* translation (x0, y0) and whose pointer moved by the screen delta (sx, sy)
\* between pointer-down and the last pointer-move commits exactly
\* (x0 + sx/s, y0 + sy/s), with the dragged item's id.
C8_DragResult ==
    (dhPhase = "ended" /\ dhLast # <<>>) =>
        dhReport = << [cardId |-> IdOfNode(dhPre[1]),
                       x |-> RAdd(dhPre[2][1], RDiv(R(dhLast[1] - dhDown[1]), scale)),
                       y |-> RAdd(dhPre[2][2], RDiv(R(dhLast[2] - dhDown[2]), scale))] >>

\* the item at (100,100) dragged by the world delta (50,-20) at scale 1 has
\* been committed at (150,80)
C8_DragScenario ==
    /\ dhPhase = "ended"
    /\ scale = R(1)
    /\ dhPre = <<"n2", <<R(100), R(100)>>>>
    /\ dhDown = <<110, 70>> /\ dhLast = <<160, 50>>
    /\ dhReport = << [cardId |-> "b", x |-> R(150), y |-> R(80)] >>

\* C9: a pointer-down immediately followed by pointer-up (no pointer-move in
\* between) reports the node's pre-drag visual position and leaves the node's
\* transform unchanged.
C9_DragIdempotentAtRest ==
    (dhPhase = "ended" /\ dhLast = <<>>) =>
        /\ dhReport # <<>>
        /\ <<dhReport[1].x, dhReport[1].y>> = dhPre[2]
        /\ elTransform[dhPre[1]] = dhPre[2]

\* a gesture without any pointer-move has been committed
C9_RestGestureCommitted ==
    /\ dhPhase = "ended" /\ dhLast = <<>>
    /\ dhReport # <<>>
    /\ dhPre[1] = "n2"

\* C10: the end-of-gesture callback runs exactly once per drag gesture, at
\* pointer-up: never while the gesture is active, and never again after it
\* (the gesture state is cleared, and the node keeps the committed transform
\* through later pointer-moves and pointer-ups).
C10_OneCommitPerDrag ==
    /\ dhCommits <= 1
    /\ dhPhase = "active" => (dhCommits = 0 /\ dhReport = <<>>)
    /\ dhPhase = "ended" =>
          /\ dhCommits = 1
          /\ ~dhIsDragging
          /\ dhCurrentElement = NoNode /\ dhCurrentCardId = NoId
          /\ <<dhReport[1].x, dhReport[1].y>> = elTransform[dhPre[1]]

\* a gesture with a pointer-move was committed once, and a further
\* pointer-move or pointer-up has been delivered since
C10_CommittedAfterMoves ==
    /\ dhPhase = "ended" /\ dhLast # <<>>
    /\ dhCommits = 1
    /\ dhAfter

\* the live pointer-down listeners the drag controller attached for item id
ListenersOf(id) ==
    UNION { { elDragListeners[n][k].h :
                k \in { j \in 1..Len(elDragListeners[n]) :
                           elDragListeners[n][j].cardId = id } } :
            n \in Nodes }

\* C14: after any sequence of register/unregister calls each item id has at
\* most one live pointer-down listener attached by the drag controller
\* (exactly one while it is registered), and none once it is unregistered.
C14_OneDragListenerPerItem ==
    \A id \in Ids :
        /\ Cardinality(ListenersOf(id)) <= 1
        /\ (dhRegistered[id] # NoNode /\ ~dhDestroyed) =>
              Cardinality(ListenersOf(id)) = 1
        /\ (dhRegistered[id] = NoNode /\ ~dhDestroyed) => ListenersOf(id) = {}

\* C16: after unregister(id) the item's node has no pointer-down listener of
\* the drag controller for id (and none of the resize controller's injected
\* handle nodes) and the registry has no entry for id; unregister with an id
\* that is not registered changes nothing.
C16_UnregisterTearsDown ==
    [][ \A id \in Ids :
          /\ DragUnregister(id) =>
                /\ dhRegistered'[id] = NoNode
                /\ \A n \in Nodes : \A k \in 1..Len(elDragListeners'[n]) :
                       elDragListeners'[n][k].cardId # id
                /\ dhRegistered[id] = NoNode => UNCHANGED <<domVars, dhVars>>
          /\ ResizeUnregister(id) =>
                /\ rhRegistered'[id] = NoNode /\ rhHandles'[id] = 0
                /\ \A n \in Nodes : \A k \in 1..Len(elHandleGroups'[n]) :
                       elHandleGroups'[n][k].cardId # id
                /\ rhRegistered[id] = NoNode => UNCHANGED <<domVars, rhVars>>
      ]_vars

\* the inline styles of the item nodes
elStyles == <<elTransform, elWidth, elHeight, elLift, elImage>>

\* C18: after the drag (resize) controller's destroy() has returned, no
\* pointer-down, pointer-move or pointer-up on a previously registered node or
\* handle mutates a node style, starts a gesture or invokes the
\* end-of-gesture callback.
C18_ItemDestroyFinal ==
    [][ /\ dhDestroyed =>
              UNCHANGED <<elStyles, dhIsDragging, dhCurrentCardId,
                          dhCurrentElement, dhReport, dhCommits>>
        /\ rhDestroyed =>
              UNCHANGED <<elStyles, rhIsResizing, rhCurrentCardId,
                          rhCurrentElement, rhReport, rhCommits>>
      ]_vars

-----------------------------------------------------------------------------
\* what a drag gesture writes and reports, from the node's start transform,
\* the pointer-down and pointer-move positions and the scale alone
DragOutcome(pre, down, last, s) ==
    << RAdd(pre[1], RSub(RDiv(R(last[1]), s), RDiv(R(down[1]), s))),
       RAdd(pre[2], RSub(RDiv(R(last[2]), s), RDiv(R(down[2]), s))) >>

\* C25: whatever the viewport translate is and however it changes before or
\* during a drag gesture, the transform written to the node by the last
\* pointer-move and the reported end position are the values determined by
\* the node's start transform, the pointer events and the scale alone (so
\* two runs that differ only in the translate write and report the same).
C25_DragIgnoresTranslate ==
    /\ (dhPhase = "active" /\ dhLast # <<>>) =>
          elTransform[dhPre[1]] = DragOutcome(dhPre[2], dhDown, dhLast, scale)
    /\ (dhPhase = "ended" /\ dhLast # <<>>) =>
          /\ dhReport # <<>>
          /\ <<dhReport[1].x, dhReport[1].y>>
                = DragOutcome(dhPre[2], dhDown, dhLast, scale)

\* a gesture with a pointer-move has been committed after the canvas was
\* scrolled by (-30, 20)
C25_DraggedWhileScrolled ==
    /\ dhPhase = "ended" /\ dhLast # <<>> /\ dhLast # dhDown
    /\ translateX = R(-30) /\ translateY = R(20)

\* C34: zoom during a drag does not displace the item.  While a drag is
\* active and its last pointer-move was at the screen position of its
\* pointer-down, the node carries its start transform, whether or not the
\* viewport scale changed since the pointer-down.
C34_ZoomKeepsItemUnderPointer ==
    (dhPhase = "active" /\ dhLast # <<>> /\ dhLast = dhDown) =>
        elTransform[dhPre[1]] = dhPre[2]

\* C35: unregister during an active gesture.  From a state where a drag is
\* active and the id it tracks is not registered (unregister(id) was called
\* during the gesture), no step writes a node's transform and no step emits
\* a commit.
C35_UnregisterEndsDrag ==
    [][ (~dhDestroyed /\ dhIsDragging /\ dhCurrentCardId # NoId
            /\ dhRegistered[dhCurrentCardId] = NoNode)
        => (elTransform' = elTransform /\ dhCommits' <= dhCommits) ]_vars

\* C26: a primary-button pointer-down on a registered node B during an active
\* drag of another node A switches the tracking to B with B's start snapshot
\* and commits nothing; from then until the next pointer-down no commit
\* carries A's id, and the next pointer-up makes exactly one commit, with B's
\* id and B's position.
C26_SecondDownSwitches ==
    [][ /\ \A n \in Nodes, p \in DragPoints :
              /\ DragMouseDown(n, 0, p)
              /\ dhIsDragging /\ dhCurrentElement \notin {n, NoNode}
              /\ dhRegistered[IdOfNode(n)] = n
              =>
              /\ dhIsDragging' /\ dhCurrentElement' = n
              /\ dhCurrentCardId' = IdOfNode(n)
              /\ dhStartX' = RDiv(R(p[1]), scale)
              /\ dhStartY' = RDiv(R(p[2]), scale)
              /\ <<dhInitialTransformX', dhInitialTransformY'>> = elTransform[n]
              /\ dhReport' = <<>> /\ dhCommits' = 0
              /\ UNCHANGED elTransform
        /\ DragMouseUp /\ dhIsDragging /\ dhAbandoned # NoNode
            /\ dhRegistered[IdOfNode(dhPre[1])] = dhPre[1]
            =>
              /\ dhCommits' = 1
              /\ dhReport' = << [cardId |-> IdOfNode(dhPre[1]),
                                 x |-> elTransform[dhPre[1]][1],
                                 y |-> elTransform[dhPre[1]][2]] >>
        /\ (dhAbandoned' # NoNode /\ dhReport' # <<>>) =>
              /\ dhReport'[1].cardId # IdOfNode(dhAbandoned')
              /\ dhCommits' <= 1
      ]_vars

\* the drag of n1 was abandoned by a press on the registered n2, and the
\* pointer-up committed n2 once
C26_SwitchedAndCommitted ==
    /\ dhAbandoned = "n1" /\ dhPre # <<>> /\ dhPre[1] = "n2"
    /\ dhRegistered["b"] = "n2"
    /\ dhPhase = "ended" /\ dhCommits = 1
    /\ dhReport # <<>> /\ dhReport[1].cardId = "b"

\* C27: a node carries the lifted style only while it is the element of the
\* active drag, and while no drag is active no registered node is lifted.
C27_LiftOnlyWhileDragged ==
    /\ \A n \in Nodes :
          elLift[n] = "lifted" => (dhIsDragging /\ dhCurrentElement = n)
    /\ ~dhIsDragging =>
          \A i \in Ids : dhRegistered[i] # NoNode =>
                             elLift[dhRegistered[i]] # "lifted"

(* Claims about the resize controller, checked under SpecResize.           *)

\* the screen delta of the resize gesture: from the handle press to the last
\* pointer-move, (0, 0) when the pointer did not move
ResizeDelta == IF rhLast = <<>> THEN <<0, 0>>
               ELSE <<rhLast[1] - rhDown[1], rhLast[2] - rhDown[2]>>

\* C5: for each corner and every sequence of pointer-moves, the corner
\* opposite the active handle keeps its world coordinate in the report at
\* pointer-up: br keeps (x, y), bl keeps (x+w, y), tr keeps (x, y+h), tl keeps
\* (x+w, y+h).
C5_OppositeCornerFixed ==
    (rhPhase = "ended" /\ rhReport # <<>>) =>
        LET r == rhReport[1]
        IN  /\ rhPre.corner \in {"br", "tr"} => r.x = rhPre.x
            /\ rhPre.corner \in {"bl", "tl"} =>
                  RAdd(r.x, r.w) = RAdd(rhPre.x, rhPre.w)
            /\ rhPre.corner \in {"br", "bl"} => r.y = rhPre.y
            /\ rhPre.corner \in {"tr", "tl"} =>
                  RAdd(r.y, r.h) = RAdd(rhPre.y, rhPre.h)

\* C6: every end-of-gesture resize report has w >= 60 and h >= 30, for every
\* corner, start geometry and pointer path (a gesture without any
\* pointer-move included).
C6_MinimumSizeFloor ==
    (rhPhase = "ended" /\ rhReport # <<>>) =>
        /\ RLe(R(60), rhReport[1].w)
        /\ RLe(R(30), rhReport[1].h)

\* C38: selected implies visible.  In every state of the resize controller,
\* the tracked handles of an item that is registered and is the current
\* selection are displayed.
C38_SelectedImpliesVisible ==
    \A id \in Ids :
        (~rhDestroyed /\ rhSelected = id /\ rhRegistered[id] # NoNode
            /\ rhHandles[id] # 0) =>
            \A k \in 1..Len(elHandleGroups[rhRegistered[id]]) :
                elHandleGroups[rhRegistered[id]][k].g = rhHandles[id] =>
                    elHandleGroups[rhRegistered[id]][k].display = "block"

\* C37: resize idempotence at rest.  A resize gesture that ends without any
\* pointer-move reports the position and the size the item had at the
\* pointer-down, for every corner and for sized and unsized items.
C37_ResizeAtRestReportsStart ==
    (rhPhase = "ended" /\ rhReport # <<>> /\ rhLast = <<>>) =>
        /\ rhReport[1].x = rhPre.x /\ rhReport[1].y = rhPre.y
        /\ rhReport[1].w = rhPre.w /\ rhReport[1].h = rhPre.h

\* C7: a gesture on corner c with the pointer screen delta (sx, sy) at the
\* constant scale s reports w = max(60, w0 + kx*sx/s) and
\* h = max(30, h0 + ky*sy/s), kx = +1 for tr/br and -1 for tl/bl, ky = +1 for
\* bl/br and -1 for tl/tr; for br the position is unchanged.
C7_ResizeArithmetic ==
    (rhPhase = "ended" /\ rhReport # <<>>) =>
        LET r == rhReport[1]
            kx == IF rhPre.corner \in {"tr", "br"} THEN 1 ELSE -1
            ky == IF rhPre.corner \in {"bl", "br"} THEN 1 ELSE -1
        IN  /\ r.w = RMax(R(60), RAdd(rhPre.w, RDiv(R(kx * ResizeDelta[1]), scale)))
            /\ r.h = RMax(R(30), RAdd(rhPre.h, RDiv(R(ky * ResizeDelta[2]), scale)))
            /\ rhPre.corner = "br" => (r.x = rhPre.x /\ r.y = rhPre.y)

\* C11: the end-of-resize callback runs exactly once per resize gesture, at
\* pointer-up and never during pointer-moves, with the item id and the
\* geometry last written to the node during the gesture; afterwards
\* isResizing, the active corner, the current element and the image snapshot
\* are cleared.
C11_OneCommitPerResize ==
    /\ rhCommits <= 1
    /\ rhPhase = "active" => (rhCommits = 0 /\ rhReport = <<>>)
    /\ rhPhase = "ended" =>
          /\ rhCommits = 1
          /\ rhReport[1].cardId = IdOfNode(rhPre.node)
          /\ rhWritten # <<>> =>
                rhReport = << [cardId |-> IdOfNode(rhPre.node),
                               x |-> rhWritten[1].x, y |-> rhWritten[1].y,
                               w |-> rhWritten[1].w, h |-> rhWritten[1].h] >>
          /\ ~rhIsResizing
          /\ rhActiveHandle = NoCorner
          /\ rhCurrentElement = NoNode /\ rhCurrentCardId = NoId
          /\ ~rhCurrentImage /\ rhImageNatural = <<>>

\* a resize of the image item that wrote a geometry has been committed
C11_ResizeCommitted ==
    /\ rhPhase = "ended"
    /\ rhPre.node = "n1" /\ rhPre.corner = "tl"
    /\ rhWritten # <<>>
    /\ rhCommits = 1
    /\ elImage["n1"][1].scale # <<R(2), R(2)>>

\* the ids of the items that show corner handles
VisibleItems ==
    UNION { { elHandleGroups[n][k].cardId :
                k \in { j \in 1..Len(elHandleGroups[n]) :
                           elHandleGroups[n][j].display = "block" } } :
            n \in Nodes }

\* C13: after any sequence of register, unregister and setSelected calls the
\* corner handles of at most one item are visible, and an item whose handles
\* are visible is the selected item (so a new selection hides the previous
\* one's handles and setSelected(null) hides all handles).
C13_HandlesOnlyOnSelected ==
    /\ Cardinality(VisibleItems) <= 1
    /\ \A id \in VisibleItems : id = rhSelected

\* the handle groups (four corner handles each) in the DOM that were created
\* for item id
GroupsOf(id) ==
    UNION { { elHandleGroups[n][k].g :
                k \in { j \in 1..Len(elHandleGroups[n]) :
                           elHandleGroups[n][j].cardId = id } } :
            n \in Nodes }

\* C15: after any sequence of register/unregister calls every registered
\* item id owns exactly four corner-handle nodes (one group of tl, tr, bl, br)
\* in its node, all tracked in the registry, and no untracked handle nodes
\* are left behind.
C15_FourHandlesPerItem ==
    \A id \in Ids :
        /\ rhRegistered[id] # NoNode => GroupsOf(id) = {rhHandles[id]}
        /\ GroupsOf(id) \subseteq {rhHandles[id]}

-----------------------------------------------------------------------------
(* Claims about the resize controller: the embedded image.                 *)
(***************************************************************************)

vpState == <<scale, translateX, translateY, isDragging, dragStartX, dragStartY,
             pendingPanX, pendingPanY, pendingZoom, rafId, rafQueue,
             saveTimeout, loadPending, destroyed, transformStyle,
             debounceTimer, dbViewport>>
dhState == <<dhRegistered, dhIsDragging, dhCurrentCardId, dhCurrentElement,
             dhStartX, dhStartY, dhInitialTransformX, dhInitialTransformY,
             dhReport, dhCommits>>
rhState == <<rhRegistered, rhHandles, rhSelected, rhGesture, rhReport,
             rhCommits>>

\* C12: a pointer-move or pointer-up that reaches a controller which has no
\* active gesture changes no controller state, mutates no node, invokes no
\* commit callback and triggers no viewport save, in each of the three
\* controllers.
C12_NoGestureNoOp ==
    [][ /\ \A p \in MousePoints :
             (~isDragging /\ HandleMouseMove(p)
                 /\ UNCHANGED <<domVars, dhVars, rhVars, stVars>>) => UNCHANGED vpState
        /\ (~isDragging /\ HandleMouseUp /\ UNCHANGED <<domVars, dhVars, rhVars, stVars>>)
              => UNCHANGED vpState
        /\ \A p \in DragPoints :
             (~dhIsDragging /\ DragMouseMove(p) /\ UNCHANGED <<vpVars, rhVars, stVars>>)
                 => UNCHANGED <<domVars, dhState>>
        /\ (~dhIsDragging /\ DragMouseUp /\ UNCHANGED <<vpVars, rhVars, stVars>>)
              => UNCHANGED <<domVars, dhState>>
        /\ \A p \in ResizePoints :
             (~rhIsResizing /\ ResizeMouseMove(p) /\ UNCHANGED <<vpVars, dhVars, stVars>>)
                 => UNCHANGED <<domVars, rhState>>
        /\ (~rhIsResizing /\ ResizeMouseUp /\ UNCHANGED <<vpVars, dhVars, stVars>>)
              => UNCHANGED <<domVars, rhState>>
      ]_vars

\* a pointer-move has reached the viewport controller while no pan was
\* active (an active pan would have written the transform)
C12_IdleMoveDelivered ==
    /\ moveCount = 1
    /\ ~isDragging
    /\ ~loadPending
    /\ transformStyle = <<>>
    /\ debounceTimer = <<>>

-----------------------------------------------------------------------------
(* Claims about the resize controller on a node without inline transform,  *)
(* checked under SpecResizeUnplaced.                                       *)

\* the world-space pointer delta of the resize gesture: from the handle
\* press to the last pointer-move, zero when there was none
ResizeWorldDelta ==
    IF rhLast = <<>> THEN <<R(0), R(0)>>
    ELSE << RSub(RDiv(R(rhLast[1]), scale), RDiv(R(rhDown[1]), scale)),
            RSub(RDiv(R(rhLast[2]), scale), RDiv(R(rhDown[2]), scale)) >>

\* C30: missing transform falls back to zero.  A resize gesture started on a
\* node whose inline transform has no parsable translate has the start
\* position (0, 0); its pointer-up reports exactly once, and the reported
\* position is the one the corner arithmetic gives from (0, 0): 0 on an axis
\* whose edge the corner does not move, and start size minus clamped new size
\* on an axis whose near edge it moves.
C30_MissingTransformFallsBack ==
    (rhPhase # "idle" /\ ~rhPre.placed) =>
        /\ rhInitialX = R(0) /\ rhInitialY = R(0)
        /\ rhPhase = "ended" =>
              /\ rhCommits = 1 /\ rhReport # <<>> /\ ~rhIsResizing
              /\ LET r == rhReport[1]
                     d == ResizeWorldDelta
                 IN  /\ rhPre.corner \in {"br", "tr"} => r.x = R(0)
                     /\ rhPre.corner \in {"bl", "tl"} =>
                           r.x = RSub(rhPre.w, RMax(R(60), RSub(rhPre.w, d[1])))
                     /\ rhPre.corner \in {"br", "bl"} => r.y = R(0)
                     /\ rhPre.corner \in {"tr", "tl"} =>
                           r.y = RSub(rhPre.h, RMax(R(30), RSub(rhPre.h, d[2])))

\* a top-left resize of the node without inline transform has moved and
\* ended at scale 1: the report is derived from (0, 0)
C30_UnplacedResized ==
    /\ rhPhase = "ended" /\ ~rhPre.placed
    /\ rhPre.node = "n2" /\ rhPre.corner = "tl"
    /\ scale = R(1) /\ rhLast = <<140, 70>>
    /\ rhReport[1].x = R(30) /\ rhReport[1].y = R(-200)

-----------------------------------------------------------------------------
(* Claims about persistence, checked under SpecPersist.                    *)

\* what a failed save must leave alone: the in-memory viewport, the state of
\* a gesture in progress, the item collection and the stored records
vpInMemory == <<scale, translateX, translateY, transformStyle, loadPending,
                destroyed>>
vpGestureState == <<isDragging, dragStartX, dragStartY, pendingPanX,
                    pendingPanY, pendingZoom, rafId, rafQueue, saveTimeout>>

\* C29: persistence failure is harmless.  A step in which a viewport save or
\* an item save fails changes neither the in-memory viewport, nor the state of
\* a gesture in progress, nor the item collection, nor any node or item
\* controller, nor the stored records; and after a failure a pan release and
\* the wheel idle timer still schedule a viewport save of the current
\* viewport, and a position update of a known item still starts a save of the
\* updated item.
C29_SaveFailureHarmless ==
    [][ /\ (swallowed' # swallowed) =>
              UNCHANGED <<vpInMemory, vpGestureState, cards, isHydrated,
                          dbViewport, dbCards, domVars, dhVars, rhVars>>
        /\ (swallowed # {} /\ isDragging /\ HandleMouseUp)
              => debounceTimer' = <<CurrentViewport>>
        /\ (swallowed # {} /\ WheelEndTimer)
              => debounceTimer' = <<CurrentViewport>>
        /\ \A id \in CardIdInputs, pos \in CardPositions :
              (swallowed # {} /\ CardIndex(cards, id) # 0
                  /\ UpdateCardPosition(id, pos))
                => /\ cardWrites' =
                        Append(cardWrites,
                               [op |-> "put",
                                card |-> cards'[CardIndex(cards, id)]])
                   /\ cards'[CardIndex(cards, id)].x = pos[1]
                   /\ cards'[CardIndex(cards, id)].y = pos[2]
      ]_vars

\* a viewport save and an item save have both failed, and a later save of
\* each has been made and has succeeded
C29_SavedAfterFailures ==
    /\ swallowed = {"viewport", "card"}
    /\ dbViewport = <<CurrentViewport>>
    /\ cards # <<>> /\ cards[1].x = R(10)
    /\ dbCards = cards
    /\ cardWrites = <<>> /\ debounceTimer = <<>>
    /\ downCount = 2

-----------------------------------------------------------------------------
(* Claims about the host's relay into the store, checked under SpecHost.   *)

\* the collection with the item at index i given the fields of `like`
\* named in `fields`, everything else as it is
CardsWith(i, fields, like) ==
    [cards EXCEPT ![i] =
        [f \in DOMAIN cards[i] |-> IF f \in fields THEN like[f] ELSE cards[i][f]]]

\* C31: host relay and frame.  A pointer-up that ends a drag of item id gives
\* that item of the collection the reported x and y and changes nothing else
\* in the collection; a pointer-up that ends a resize gives it the reported
\* x, y and size (w, h) and changes nothing else; an item that is no longer
\* in the collection is not touched; and the collection changes in no step
\* of a gesture other than its ending pointer-up.
C31_HostRelay ==
    [][ /\ dhCommits' = dhCommits + 1 =>
              LET r == dhReport'[1]
                  i == CardIndex(cards, r.cardId)
              IN  cards' = IF i = 0 THEN cards
                           ELSE CardsWith(i, {"x", "y"}, r)
        /\ rhCommits' = rhCommits + 1 =>
              LET r == rhReport'[1]
                  i == CardIndex(cards, r.cardId)
              IN  cards' = IF i = 0 THEN cards
                           ELSE CardsWith(i, {"x", "y", "size"},
                                          [x |-> r.x, y |-> r.y,
                                           size |-> <<r.w, r.h>>])
        /\ (dhCommits' # dhCommits + 1 /\ rhCommits' # rhCommits + 1
               /\ UNCHANGED isHydrated /\ UNCHANGED cardOps)
              => UNCHANGED cards
      ]_vars

\* a resize of item a by its top-left corner has ended with a report that
\* differs from the stored geometry in position and size, the collection
\* holds exactly that geometry for a, and item b is as it was stored
C31_ResizeRelayed ==
    /\ rhPhase = "ended" /\ rhCommits = 1 /\ rhPre.corner = "tl"
    /\ Len(cards) = 2 /\ cards[1].id = "a"
    /\ rhReport[1].cardId = "a"
    /\ cards[1].x = rhReport[1].x /\ cards[1].y = rhReport[1].y
    /\ cards[1].size = <<rhReport[1].w, rhReport[1].h>>
    /\ cards[1].x # StoredCards[1].x /\ cards[1].size # StoredCards[1].size
    /\ cards[1].content = "image"
    /\ cards[2] = StoredCards[2]

\* C36: a commit for a removed item is dropped.  A pointer-up that emits a
\* drag or resize commit for an id that is not in the collection leaves the
\* collection, the writes in flight and the table as they are: the item is
\* not re-created and no save is started for it.
C36_CommitForRemovedDropped ==
    [][ (\/ /\ dhCommits' = dhCommits + 1
            /\ CardIndex(cards, dhReport'[1].cardId) = 0
         \/ /\ rhCommits' = rhCommits + 1
            /\ CardIndex(cards, rhReport'[1].cardId) = 0)
        => (cards' = cards /\ cardWrites' = cardWrites /\ dbCards' = dbCards)
      ]_vars

\* a drag of item a was committed after the item had been deleted: the
\* delete is the only write in flight
C36_CommitAfterDelete ==
    /\ dhPhase = "ended" /\ dhCommits = 1
    /\ dhReport[1].cardId = "a"
    /\ CardIndex(cards, "a") = 0
    /\ cardWrites = <<[op |-> "delete", id |-> "a"]>>

-----------------------------------------------------------------------------
(* Claims about the three controllers together, checked under SpecGesture. *)

\* the number of gestures that are active
ActiveGestures ==
    (IF isDragging THEN 1 ELSE 0) + (IF dhIsDragging THEN 1 ELSE 0)
        + (IF rhIsResizing THEN 1 ELSE 0)

\* the number of end-of-gesture commits a step emits: the pan's save, the
\* drag's onDragEnd, the resize's onResizeEnd
StepCommits ==
    (IF isDragging /\ ~isDragging' THEN 1 ELSE 0)
        + (IF dhCommits' = dhCommits + 1 THEN 1 ELSE 0)
        + (IF rhCommits' = rhCommits + 1 THEN 1 ELSE 0)

\* C39: one gesture per pointer-down.  When every pointer-down is followed
\* by a pointer-up before the next one, at most one of pan, drag and resize
\* is active in every state; a step that starts a resize starts neither a
\* drag nor a pan, a step that starts a drag starts no pan, and no step
\* emits more than one commit.
C39_OneGesturePerPointerDown ==
    /\ [](ActiveGestures <= 1)
    /\ [][ /\ (~rhIsResizing /\ rhIsResizing') =>
                 (dhIsDragging' = dhIsDragging /\ isDragging' = isDragging)
           /\ (~dhIsDragging /\ dhIsDragging') => isDragging' = isDragging
           /\ StepCommits <= 1 ]_vars

\* a press on a displayed corner handle of a node that carries a drag
\* listener has started a resize, and only a resize
C39_HandlePressOnDraggableNode ==
    /\ rhIsResizing /\ ~dhIsDragging /\ ~isDragging
    /\ elDragListeners[rhCurrentElement] # <<>>

====
